---- MODULE Spec2Model ----
(***************************************************************************)
(* LearnMate (client-rendered learning portal): a model of                 *)
(*   - the derived profile state (utils/profileUtils.ts) and the writers   *)
(*     of the user record (App: addQuizResult, handleUpdateProfile;        *)
(*     Profile: handleSave; Quiz: the 1.5 s finish timer),                 *)
(*   - the streaming chat reconciliation (Chat.handleSendMessage and its   *)
(*     animation-frame loop),                                              *)
(*   - the live voice session hook (Chat.useLiveSession).                  *)
(* Each part has its own specification; the variables of the other parts   *)
(* are left unchanged by it.                                               *)
(***************************************************************************)
EXTENDS Integers, Sequences, FiniteSets, TLC

VARIABLES
    \* ---- getRank applied to an arbitrary input (SpecRank)
    rkPoints,        \* the argument `points`
    rkRank,          \* the value returned, "none" before the call
    \* ---- App / Quiz / Profile (SpecProfile)
    user,            \* App state `user`
    quizHistory,     \* App state `quizHistory`
    view,            \* App state `view`
    finishTimers,    \* Quiz.handleAnswer: pending setTimeout callbacks, FIFO
    pendingSaves,    \* Profile.handleSave: calls awaiting fileToBase64
    \* ---- Chat: sessions and one text exchange (SpecChat)
    sessions,        \* Chat state `sessions`, newest first
    activeSessionId, \* Chat state `activeSessionId`, 0 for null
    isLoading,       \* Chat state `isLoading`
    chatError,       \* Chat state `error`, "null" or the message
    nextSessionId,   \* the next value of Date.now().toString()
    exSession,       \* handleSendMessage: currentSessionId
    streamText,      \* handleSendMessage: let streamText
    displayedText,   \* handleSendMessage: let displayedText
    isComplete,      \* handleSendMessage: let isComplete
    framePending,    \* an animation frame requested and not yet run
    finalSources,    \* handleSendMessage: let finalSources
    tutor,           \* the askTutor promise: none, pending, resolved, rejected
    exchanges,       \* number of handleSendMessage calls that sent a message
    texts,           \* history: the text streamed so far, per exchange
    storedSessions,  \* localStorage 'learnMateChatSessions': <<>> or <<list>>
    titleRequests,   \* pending generateChatTitle promises, by session id
    liveTimeouts,    \* onTurnComplete: pending setTimeout(0) callbacks
    voiceTurns,      \* number of completed live turns handed to Chat
    \* ---- Chat: useLiveSession (SpecLive); 0 stands for null in the refs
    liveStatus,      \* state `liveStatus`
    liveError,       \* state `error` of the hook, "null" or the message
    mounted,         \* the Chat component is mounted
    starts,          \* number of startSession calls made
    startPc,         \* per call: none, awaitMic, awaitConn, done
    capturedSession, \* per call: activeSessionId in its onTurnComplete closure
    promise,         \* per call: the promise of startLiveSession
    conn,            \* per call: the connection behind the promise
    stopWaiting,     \* calls whose promise some stopSession is awaiting
    sessionPromiseRef,
    inputAudioContextRef,
    outputAudioContextRef,
    mediaStreamRef,
    scriptProcessorRef,
    nextStartTimeRef,
    audioSourcesRef, \* indices into `scheduled`
    currentInputTranscription,   \* TRUE when the text is not blank
    currentOutputTranscription,  \* TRUE when the text is not blank
    liveTracks,      \* media streams whose tracks are live
    openContexts,    \* <<"input"|"output", call>>: contexts not closed
    connectedProcessors, \* script processors still connected
    outClock,        \* currentTime of the context in outputAudioContextRef
    chunks,          \* number of audio chunks handled
    scheduled,       \* history: buffers started since the last cleanup
    teardownDone,    \* history: cleanup ran and no startSession since
    \* ---- calculateAccuracy applied to an arbitrary history (SpecAccuracy)
    accHistory,      \* the argument `quizHistory`
    accResult,       \* <<the value returned>>, <<>> before the call
    \* ---- Quiz: one call of shuffleArray (SpecShuffle)
    shInput,         \* the argument `array`
    newArray,        \* const newArray
    shI,             \* the loop variable i
    shChoices,       \* history: the values of j drawn so far
    \* ---- ImageGenerator: the generation history and its stored copy (SpecImageHistory)
    imgMounted,      \* the ImageGenerator view is mounted
    imgHistory,      \* useState history, newest first: <<[id, size]>>
    imgStored,       \* <<value of the key imageGenerationHistory>>, <<>> when absent
    imgOther,        \* space of the origin's quota taken by the other keys
    saveTrail,       \* history: the data of each setItem of the last save, in order
    nextImageId,     \* Date.now() of the next history item
    \* ---- the file inputs of the views (SpecFileInputs)
    fiFile,          \* per input: the selected file, NoFile when none
    fiPreview,       \* per input: the file the preview URL was made of
    fiResult,        \* per input: a result of the previous file is shown
    fiError,         \* VideoAnalysis state `error`
    picks,           \* number of files chosen so far
    \* ---- Home: the Daily Spark (SpecSpark)
    homeInstance,    \* the mounted instance of Home, 0 when another view is shown
    homeVisits,      \* number of Home instances mounted so far
    dailySpark,      \* Home state dailySpark of the mounted instance, "null" at first
    loadingSpark,    \* Home state loadingSpark
    sparkPending,    \* instances whose generateDailySpark call has not returned
    sparkRequests,   \* history: number of generateDailySpark calls
    sparksShown,     \* history: the snippets displayed, in order
    \* ---- two tabs of the app on one localStorage (SpecTabs)
    tabPc,           \* per tab: "closed", "mounted" (first effects ran), "ready" (loaded state rendered)
    tabUser,         \* per tab: <<state user>>, <<>> when null
    tabHistory,      \* per tab: state quizHistory
    tabBase,         \* history: per tab, the quiz history read by the load effect
    tabUpdates,      \* history: per tab, the results recorded since the load
    storedUser,      \* <<value of the key learnMateUser>>, <<>> when absent
    storedHistory,   \* <<value of the key learnMateQuizHistory>>, <<>> when absent
    lastWriter,      \* history: the tab that wrote the quiz history key last, 0 at first
    \* ---- Todo: tasks and the notification permission (SpecTodo)
    tasks,           \* Todo state tasks, newest first: <<[id, completed, reminder]>>
    permission,      \* Notification.permission
    prompts,         \* pending requestPermission calls: [tasks (captured), id, timestamp]
    nextTaskId,      \* Date.now() of the next task
    \* ---- Quiz: one quiz in progress, its timers and the key activeQuizState (SpecQuiz)
    quizInstance,    \* the mounted instance of Quiz, 0 when another view is shown
    quizMounts,      \* number of Quiz instances mounted so far
    quiz,            \* the state of the mounted instance (useState values)
    activeQuizState, \* <<value of the key activeQuizState>>, <<>> when absent
    quizTimers,      \* pending setTimeout callbacks of handleAnswer, with what they captured
    quizRequests,    \* pending generateQuiz calls: [inst, subject]
    quizCalls,       \* history: the results handed to addQuizResult, with the quiz they are of
    nextQuizId,      \* identity of the next set of questions
    \* ---- useSpeechRecognition (SpecSpeech)
    isListening,     \* state isListening, as of the last render
    listeningUpdate, \* setIsListening call not yet rendered: <<>> or <<value>>
    refSyncPending,  \* the effect [isListening] of the last render has not run yet
    isListeningRef,  \* isListeningRef.current
    recognition,     \* the recognizer: "idle", "started", "ending" (end event queued)
    speechError,     \* state error of the hook: "null" or the message of the code
    intent,          \* history: "none", "listening", "stopped" (stopListening), "error"
    restarts,        \* history: recognition.start() calls made by onend
    \* ---- animateStream, the reveal of one frame on given buffers (SpecReveal)
    revealStream,    \* streamText when the frame runs
    revealDisplayed, \* displayedText
    revealBefore,    \* history: displayedText before the last frame
    revealWrote,     \* history: the last frame called updateSession with new content
    revealFrames     \* history: frames run

rankVars    == <<rkPoints, rkRank>>
profileVars == <<user, quizHistory, view, finishTimers, pendingSaves>>
chatVars    == <<sessions, activeSessionId, isLoading, chatError, nextSessionId,
                 exSession, streamText, displayedText, isComplete, framePending,
                 finalSources, tutor, exchanges, texts, liveTimeouts, voiceTurns,
                 storedSessions, titleRequests>>
liveVars    == <<liveStatus, liveError, mounted, starts, startPc, capturedSession,
                 promise, conn, stopWaiting, sessionPromiseRef,
                 inputAudioContextRef, outputAudioContextRef, mediaStreamRef,
                 scriptProcessorRef, nextStartTimeRef, audioSourcesRef,
                 currentInputTranscription, currentOutputTranscription,
                 liveTracks, openContexts, connectedProcessors, outClock,
                 chunks, scheduled, teardownDone>>
accVars     == <<accHistory, accResult>>
shufVars    == <<shInput, newArray, shI, shChoices>>
imgVars     == <<imgMounted, imgHistory, imgStored, imgOther, saveTrail, nextImageId>>
fiVars      == <<fiFile, fiPreview, fiResult, fiError, picks>>
sparkVars   == <<homeInstance, homeVisits, dailySpark, loadingSpark, sparkPending, sparkRequests, sparksShown>>
tabVars     == <<tabPc, tabUser, tabHistory, tabBase, tabUpdates, storedUser, storedHistory, lastWriter>>
todoVars    == <<tasks, permission, prompts, nextTaskId>>
quizVars    == <<quizInstance, quizMounts, quiz, activeQuizState, quizTimers, quizRequests, quizCalls, nextQuizId>>
speechVars  == <<isListening, listeningUpdate, refSyncPending, isListeningRef, recognition, speechError, intent, restarts>>
revealVars  == <<revealStream, revealDisplayed, revealBefore, revealWrote, revealFrames>>
extVars     == <<accVars, shufVars, imgVars, fiVars, sparkVars, tabVars, todoVars, quizVars, speechVars, revealVars>>
\* the rest of extVars, for the actions of each part
accRest     == <<shufVars, imgVars, fiVars, sparkVars, tabVars, todoVars, quizVars, speechVars, revealVars>>
shufRest    == <<accVars, imgVars, fiVars, sparkVars, tabVars, todoVars, quizVars, speechVars, revealVars>>
imgRest     == <<accVars, shufVars, fiVars, sparkVars, tabVars, todoVars, quizVars, speechVars, revealVars>>
fiRest      == <<accVars, shufVars, imgVars, sparkVars, tabVars, todoVars, quizVars, speechVars, revealVars>>
sparkRest   == <<accVars, shufVars, imgVars, fiVars, tabVars, todoVars, quizVars, speechVars, revealVars>>
tabRest     == <<accVars, shufVars, imgVars, fiVars, sparkVars, todoVars, quizVars, speechVars, revealVars>>
todoRest    == <<accVars, shufVars, imgVars, fiVars, sparkVars, tabVars, quizVars, speechVars, revealVars>>
quizRest    == <<accVars, shufVars, imgVars, fiVars, sparkVars, tabVars, todoVars, speechVars, revealVars>>
speechRest  == <<accVars, shufVars, imgVars, fiVars, sparkVars, tabVars, todoVars, quizVars, revealVars>>
revealRest  == <<accVars, shufVars, imgVars, fiVars, sparkVars, tabVars, todoVars, quizVars, speechVars>>
vars        == <<rankVars, profileVars, chatVars, liveVars, extVars>>

----------------------------------------------------------------------------
(* Bounds of the model *)

\* largest argument given to getRank in SpecRank
MaxPoints == 5100
\* quiz results recorded or scheduled in one run of SpecProfile
MaxQuizzes == 3
\* finish timers pending at once
MaxTimers == 1
\* profile saves awaiting their picture conversion at once
MaxSaves == 1
\* chat sessions New Chat creates in one run
MaxSessions == 1
\* text exchanges sent in one run
MaxExchanges == 1
\* length of the text one askTutor call streams
MaxLen == 3
\* completed live voice turns in one run (each may create a session)
MaxVoiceTurns == 2
\* startSession calls in one run of SpecLive
MaxStarts == 2
\* largest reading of the output context's clock
MaxClock == 2
\* audio chunks received in one run
MaxChunks == 2
\* quiz results in the history given to calculateAccuracy in SpecAccuracy
MaxHistory == 2
\* questions of the longest quiz of that history
MaxQuestions == 20
\* length of the longest list given to shuffleArray in SpecShuffle
MaxList == 4

\* history items generated in one run of SpecImageHistory
MaxImages == 3

\* the quota of the origin's localStorage, in the units of ImageSizes
StorageQuota == 4

\* the cap of the history kept in state
HISTORY_LIMIT == 20

\* files chosen in one run of SpecFileInputs
MaxPicks == 3

\* 5 * 1024 * 1024
ImageLimit == 5242880

\* 50 * 1024 * 1024
VideoLimit == 52428800

\* times the home view is shown in one run of SpecSpark
MaxVisits == 3

\* results recorded by one tab in one run of SpecTabs
MaxTabUpdates == 2

\* quiz results recorded in one run of SpecBadges
MaxRecorded == 10

\* tasks added in one run of SpecTodo
MaxTasks == 2

\* requestPermission calls pending at one time
MaxPrompts == 1

\* questions of a quiz in SpecQuiz
NumQuestions == 2

\* times the quiz view is shown in one run of SpecQuiz
MaxQuizMounts == 2

\* quizzes started in one run of SpecQuiz
MaxQuizStarts == 2

\* handleAnswer timeouts pending at one time
MaxQuizTimers == 2

\* recognition.start() calls made by onend in one run of SpecSpeech
MaxRestarts == 2

\* longest buffer a frame of SpecReveal finds
MaxBacklog == 12

\* frames run on one buffer in SpecReveal
MaxFrames == 3

----------------------------------------------------------------------------
(* constants.ts: RANKS[..].minPoints *)

BronzeMin  == 0
SilverMin  == 500
GoldMin    == 1500
EmeraldMin == 3000
DiamondMin == 5000

\* types.ts: Rank, in the order of RANKS
RankOrder == <<"Bronze", "Silver", "Gold", "Emerald", "Diamond">>

RankIndex(r) == CHOOSE i \in 1..Len(RankOrder) : RankOrder[i] = r

\* types.ts: BadgeName
BadgeNames == {"Math Star", "Grammar Pro", "Quiz Champ", "Knowledge Seeker"}

\* getNewBadges: the two count thresholds
QuizChampCount == 10
KnowledgeSeekerCorrect == 100
\* addQuizResult: points per correct answer
PointsPerCorrect == 25

----------------------------------------------------------------------------
(* utils/profileUtils.ts *)

getRankStrict(points) ==
    IF points > DiamondMin THEN "Diamond"
    ELSE IF points > EmeraldMin THEN "Emerald"
    ELSE IF points > GoldMin THEN "Gold"
    ELSE IF points > SilverMin THEN "Silver"
    ELSE "Bronze"

getRank(points) ==
    IF points >= DiamondMin THEN "Diamond"
    ELSE IF points >= EmeraldMin THEN "Emerald"
    ELSE IF points >= GoldMin THEN "Gold"
    ELSE IF points >= SilverMin THEN "Silver"
    ELSE "Bronze"

RECURSIVE SumScores(_)
\* reduce((sum, result) => sum + result.score, 0)
SumScores(h) == IF h = <<>> THEN 0 ELSE h[1].score + SumScores(Tail(h))

\* (score / total) >= 0.9 in IEEE doubles: 0/0 is NaN (false), s/0 with
\* s > 0 is Infinity (true); otherwise the quotient is correctly rounded and
\* compares with the literal 0.9 as the exact fractions do.
ScoreRatioAtLeast90(r) ==
    IF r.total = 0 THEN r.score > 0 ELSE 10 * r.score >= 9 * r.total

BadgesEarnedBy(latestResult, fullHistory) ==
    LET fullHistoryWithLatest == Append(fullHistory, latestResult)
        totalCorrectAnswers   == SumScores(fullHistoryWithLatest)
    IN  (IF latestResult.subject = "Math" /\ ScoreRatioAtLeast90(latestResult)
            THEN {"Math Star"} ELSE {})
        \cup
        (IF latestResult.subject = "English" /\ ScoreRatioAtLeast90(latestResult)
            THEN {"Grammar Pro"} ELSE {})
        \cup
        (IF Len(fullHistoryWithLatest) >= QuizChampCount
            THEN {"Quiz Champ"} ELSE {})
        \cup
        (IF totalCorrectAnswers >= KnowledgeSeekerCorrect
            THEN {"Knowledge Seeker"} ELSE {})

getNewBadgesFresh(currentBadges, latestResult, fullHistory) ==
    BadgesEarnedBy(latestResult, fullHistory)

\* earnedBadges = new Set(currentBadges), then only add()
getNewBadges(currentBadges, latestResult, fullHistory) ==
    currentBadges \cup BadgesEarnedBy(latestResult, fullHistory)

----------------------------------------------------------------------------
(* SpecRank: getRank on every input 0..MaxPoints *)

RankInit == rkPoints \in 0..MaxPoints /\ rkRank = "none"

RankIdle == rkPoints = 0 /\ rkRank = "none"

\* const newRank = getRank(points)
CallGetRank ==
    /\ rkRank = "none"
    /\ rkRank' = getRank(rkPoints)
    /\ UNCHANGED <<rkPoints, profileVars, chatVars, liveVars, extVars>>

----------------------------------------------------------------------------
(* App (part_007), Quiz.tsx, Profile.tsx: the writers of the user record *)

Names == {"Alex Johnson", "Sam"}

\* App's views; "home" stands for every view other than quiz and profile
Views == {"home", "quiz", "profile"}

\* The results a finished quiz can hand to addQuizResult: generated quizzes
\* have QUIZ_LENGTH = 10 questions, a custom quiz any number.
QuizResults ==
    { [subject |-> "Math",    score |-> 9,  total |-> 10],
      [subject |-> "English", score |-> 10, total |-> 10],
      [subject |-> "Custom",  score |-> 40, total |-> 40] }

\* App load effect with an empty localStorage
defaultUser ==
    [ name           |-> "Alex Johnson",
      profilePicture |-> "none",
      rank           |-> "Bronze",
      totalPoints    |-> 125,
      badges         |-> {},
      progress       |-> <<50, 125>> ]

ProfileInit ==
    /\ user = defaultUser
    /\ quizHistory = <<>>
    /\ view = "home"
    /\ finishTimers = <<>>
    /\ pendingSaves = {}

addQuizResultUserStaleRank(prevUser, result, capturedHistory) ==
    LET newTotalPoints == prevUser.totalPoints + result.score * PointsPerCorrect
    IN  [prevUser EXCEPT
            !.totalPoints = newTotalPoints,
            !.rank        = getRank(prevUser.totalPoints),
            !.badges      = getNewBadges(prevUser.badges, result,
                                         Append(capturedHistory, result)),
            !.progress    = Append(prevUser.progress, newTotalPoints)]

\* the updater given to setUser in addQuizResult; capturedHistory is the
\* `quizHistory` of the render whose addQuizResult is called
addQuizResultUser(prevUser, result, capturedHistory) ==
    LET pointsEarned   == result.score * PointsPerCorrect
        newTotalPoints == prevUser.totalPoints + pointsEarned
        newRank        == getRank(newTotalPoints)
        fullHistory    == Append(capturedHistory, result)
        newBadges      == getNewBadges(prevUser.badges, result, fullHistory)
    IN  [prevUser EXCEPT
            !.totalPoints = newTotalPoints,
            !.rank        = newRank,
            !.badges      = newBadges,
            !.progress    = Append(prevUser.progress, newTotalPoints)]

\* Header: setView. Leaving the quiz view unmounts Quiz; its pending timers
\* are not cleared and no longer belong to a mounted instance.
setView(v) ==
    /\ v # view
    /\ view' = v
    /\ finishTimers' =
          IF view = "quiz"
          THEN [i \in 1..Len(finishTimers) |->
                   [finishTimers[i] EXCEPT !.mounted = FALSE]]
          ELSE finishTimers
    /\ UNCHANGED <<user, quizHistory, pendingSaves, rankVars, chatVars, liveVars, extVars>>

\* Quiz.handleAnswer on the last question of a quiz whose answers give
\* result r: returns if selectedOption is set (a timer of this instance is
\* pending), else schedules finishQuiz(newAnswers) 1.5 s later.  The callback
\* closes over this render's addQuizResult, hence over its quizHistory.
handleAnswer(r) ==
    /\ view = "quiz"
    /\ \A i \in 1..Len(finishTimers) : ~finishTimers[i].mounted
    /\ Len(finishTimers) < MaxTimers
    /\ Len(quizHistory) + Len(finishTimers) < MaxQuizzes
    /\ finishTimers' = Append(finishTimers,
            [result |-> r, capturedHistory |-> quizHistory, mounted |-> TRUE])
    /\ UNCHANGED <<user, quizHistory, view, pendingSaves, rankVars, chatVars, liveVars, extVars>>

\* the timer fires: finishQuiz -> addQuizResult(result)
finishQuiz ==
    /\ finishTimers # <<>>
    /\ LET t == Head(finishTimers)
       IN  /\ user' = addQuizResultUser(user, t.result, t.capturedHistory)
           /\ quizHistory' = Append(quizHistory, t.result)
    /\ finishTimers' = Tail(finishTimers)
    /\ UNCHANGED <<view, pendingSaves, rankVars, chatVars, liveVars, extVars>>

\* Profile.handleSave with the form holding name nm: updatedUser is built
\* from the `user` prop of the current render; with a new picture the call
\* awaits fileToBase64 before onUpdateProfile, else it calls it at once.
handleSave(nm, withPicture) ==
    /\ view = "profile"
    /\ LET updatedUser == [user EXCEPT !.name = nm]
       IN  IF withPicture
           THEN /\ Cardinality(pendingSaves) < MaxSaves
                /\ pendingSaves' = pendingSaves \cup {updatedUser}
                /\ UNCHANGED user
           ELSE /\ user' = updatedUser
                /\ UNCHANGED pendingSaves
    /\ UNCHANGED <<quizHistory, view, finishTimers, rankVars, chatVars, liveVars, extVars>>

\* fileToBase64 resolves: updatedUser.profilePicture = base64;
\* onUpdateProfile(updatedUser) -> handleUpdateProfile -> setUser(updatedUser)
saveResolved(updatedUser) ==
    /\ updatedUser \in pendingSaves
    /\ user' = [updatedUser EXCEPT !.profilePicture = "pic"]
    /\ pendingSaves' = pendingSaves \ {updatedUser}
    /\ UNCHANGED <<quizHistory, view, finishTimers, rankVars, chatVars, liveVars, extVars>>

\* fileToBase64 rejects: alert and return
saveRejected(updatedUser) ==
    /\ updatedUser \in pendingSaves
    /\ pendingSaves' = pendingSaves \ {updatedUser}
    /\ UNCHANGED <<user, quizHistory, view, finishTimers, rankVars, chatVars, liveVars, extVars>>

\* the results recorded in SpecBadges
BadgeResults == {r \in QuizResults : r.subject # "English"}

\* addQuizResult(result) called from the current render: setUser with the
\* updater, then setQuizHistory(prev => [...prev, result])
addQuizResult(result) ==
    /\ Len(quizHistory) < MaxRecorded
    /\ user' = addQuizResultUser(user, result, quizHistory)
    /\ quizHistory' = Append(quizHistory, result)
    /\ UNCHANGED <<view, finishTimers, pendingSaves, rankVars, chatVars,
                   liveVars, extVars>>

----------------------------------------------------------------------------
(* components/Chat.tsx: sessions, handleSendMessage, animateStream *)

Min(a, b) == IF a < b THEN a ELSE b
Max(a, b) == IF a > b THEN a ELSE b

\* The reply askTutor streams: its i-th code unit is i, so that two
\* pieces of it are equal only if they are the same piece.  The code never
\* looks at a character; how much of the reply arrives, in which chunks and
\* when, is left open.
ReplyPiece(from, n) == [ i \in 1..n |-> from + i ]

\* lengths of a streamed chunk: `if (chunk) streamText += chunk` ignores the
\* empty one
ChunkLengths == 1..MaxLen

\* Strings are sequences of UTF-16 code units.
Space   == 32
LetterQ == 113
LetterV == 118

\* what the textarea may hold when Send is pressed
InputTexts == { <<>>, <<Space>>, <<LetterQ>>, <<Space, LetterQ>> }

RECURSIVE TrimStart(_)
TrimStart(t) == IF t # <<>> /\ Head(t) = Space THEN TrimStart(Tail(t)) ELSE t

RECURSIVE TrimEnd(_)
TrimEnd(t) ==
    IF t # <<>> /\ t[Len(t)] = Space THEN TrimEnd(SubSeq(t, 1, Len(t) - 1)) ELSE t

\* String.prototype.trim
Trim(t) == TrimEnd(TrimStart(t))

\* String.prototype.slice(0, n) for n >= 0
Slice0(t, n) == SubSeq(t, 1, Min(n, Len(t)))

\* Math.round(delta / 1.5): 2*delta/3 is never halfway between two integers,
\* so the nearest integer is floor(2*delta/3 + 1/2) = (4*delta + 3) \div 6
RoundDeltaOver1p5(delta) == (4 * delta + 3) \div 6

\* a reveal of half the backlog, rounded down
RevealChunkHalf(delta) == Max(1, delta \div 2)

\* const chunk = Math.max(1, Math.round(delta / 1.5))
RevealChunk(delta) == Max(1, RoundDeltaOver1p5(delta))

NextContentFromOffset(stream, displayed) ==
    SubSeq(stream, Len(displayed) + 1,
           Min(Len(displayed) + RevealChunk(Len(stream) - Len(displayed)),
               Len(stream)))

\* const nextContent = streamText.slice(0, displayedText.length + chunk)
NextContent(stream, displayed) ==
    Slice0(stream, Len(displayed) + RevealChunk(Len(stream) - Len(displayed)))

\* the loop reschedules itself: !isComplete || displayedText.length < streamText.length
LoopContinues(complete, displayed, stream) ==
    ~complete \/ Len(displayed) < Len(stream)

\* { role: 'user', content, imageUrl, thinkingMode }; the image URL and the
\* thinking flag are only displayed and are left out
UserMessage(text, hasImage) ==
    [ role |-> "user", content |-> text, isStreaming |-> FALSE,
      sources |-> "undefined", modality |-> "text", ex |-> 0 ]

\* { role: 'model', content: '', isStreaming: true }; ex tags the exchange
\* that placed it (history only, never read by an action)
Placeholder(n) ==
    [ role |-> "model", content |-> <<>>, isStreaming |-> TRUE,
      sources |-> "undefined", modality |-> "text", ex |-> n ]

\* { role, content, modality: 'voice' }
VoiceMessage(r) ==
    [ role |-> r, content |-> <<LetterV>>, isStreaming |-> FALSE,
      sources |-> "undefined", modality |-> "voice", ex |-> 0 ]

\* the messages the updater of updateSession receives: those of the session
\* with the given id (ids are unique); the updater is not called without one
MessagesOf(ss, sessionId) ==
    IF \E i \in 1..Len(ss) : ss[i].id = sessionId
    THEN ss[CHOOSE i \in 1..Len(ss) : ss[i].id = sessionId].messages
    ELSE <<>>

\* a ChatSession as handleNewChat and onTurnComplete build it
NewSession(id, name) == [id |-> id, name |-> name, messages |-> <<>>]

\* names the sidebar's rename field is given
NewNames == {"renamed"}

\* the title generateChatTitle resolves with
GeneratedTitle == "title"

\* updateSession(id, s => ({ ...s, name }))
renameSession(ss, sessionId, name) ==
    [ i \in 1..Len(ss) |->
        IF ss[i].id = sessionId THEN [ss[i] EXCEPT !.name = name] ELSE ss[i] ]

\* the save effect, run after a render with a new sessions array: the key
\* gets JSON.stringify(sessions) unless the list is empty.  Every field of
\* the model is a string, a number or a boolean, or stands for undefined,
\* which stringify drops and a read of the parsed object gives back.
SaveSessions(ss, stored) == IF Len(ss) > 0 THEN <<ss>> ELSE stored

\* the load effect: setSessions(JSON.parse(saved)) when the key holds a value
LoadSessions(stored) == IF stored = <<>> THEN <<>> ELSE stored[1]

\* setSessions(prev => prev.map(s => s.id === sessionId ? updater(s) : s));
\* updated is the value of updater(s).messages
updateSession(ss, sessionId, updated) ==
    [ i \in 1..Len(ss) |->
        IF ss[i].id = sessionId
        THEN [ss[i] EXCEPT !.messages = updated]
        ELSE ss[i] ]

\* animateStream, the reveal: the last message gets the new content when it
\* is the streaming model message
RevealInto(msgs, nextContent) ==
    IF msgs = <<>> THEN msgs
    ELSE LET lastMsg == msgs[Len(msgs)]
         IN  IF lastMsg.role = "model" /\ lastMsg.isStreaming
             THEN [msgs EXCEPT ![Len(msgs)] = [lastMsg EXCEPT !.content = nextContent]]
             ELSE msgs

\* animateStream, the finalisation: [...msgs.slice(0, -1),
\* { ...lastMsg, isStreaming: false, sources: finalSources }]; with no
\* message, lastMsg is undefined and the spread leaves only the two fields
FinalizeLast(msgs, srcs) ==
    IF msgs = <<>>
    THEN << [ role |-> "undefined", content |-> <<>>, isStreaming |-> FALSE,
              sources |-> srcs, modality |-> "text", ex |-> 0 ] >>
    ELSE [msgs EXCEPT ![Len(msgs)] =
             [msgs[Len(msgs)] EXCEPT !.isStreaming = FALSE, !.sources = srcs]]

IsNotStreaming(m) == ~m.isStreaming

MarkNotStreaming(msgs) ==
    [ i \in 1..Len(msgs) |-> [msgs[i] EXCEPT !.isStreaming = FALSE] ]

\* catch: session.messages.filter(m => !m.isStreaming)
RemoveStreaming(msgs) == SelectSeq(msgs, IsNotStreaming)

\* err.message of the GeminiError askTutor throws
TutorErrorMessage == "Failed to get response from tutor"

\* the userFacingMessage askTutor gives to the GeminiError it throws
TutorUserFacingMessage == "Sorry, I couldn't get a response. Please try again."

\* new GeminiError(message, userFacingMessage): super(message) makes
\* `message` the Error's message
GeminiError(message, userFacingMessage) ==
    [message |-> message, userFacingMessage |-> userFacingMessage]

\* what the catch of askTutor throws
askTutorError == GeminiError(TutorErrorMessage, TutorUserFacingMessage)

\* err instanceof Error ? err.message : 'Failed to send message.'
CaughtMessage(err) == err.message

ChatInit ==
    /\ sessions = <<>>
    /\ activeSessionId = 0
    /\ isLoading = FALSE
    /\ chatError = "null"
    /\ nextSessionId = 1
    /\ exSession = 0
    /\ streamText = <<>>
    /\ displayedText = <<>>
    /\ isComplete = FALSE
    /\ framePending = FALSE
    /\ finalSources = "undefined"
    /\ tutor = "none"
    /\ exchanges = 0
    /\ texts = <<>>
    /\ liveTimeouts = {}
    /\ voiceTurns = 0
    /\ storedSessions = <<>>
    /\ titleRequests = {}

exchangeVars == <<exSession, streamText, displayedText, isComplete, framePending,
                  finalSources, tutor, exchanges, texts>>

handleNewChat ==
    /\ nextSessionId <= MaxSessions
    /\ sessions' = <<NewSession(nextSessionId, "New Conversation")>> \o sessions
    /\ activeSessionId' = nextSessionId
    /\ nextSessionId' = nextSessionId + 1
    /\ storedSessions' = SaveSessions(sessions', storedSessions)
    /\ UNCHANGED <<isLoading, chatError, exchangeVars, liveTimeouts, voiceTurns,
                   titleRequests, rankVars, profileVars, liveVars, extVars>>

\* handleSendMessage up to the call of askTutor
handleSendMessage(input, hasImage) ==
    /\ ~((Trim(input) = <<>> /\ ~hasImage) \/ isLoading \/ activeSessionId = 0)
    /\ exchanges < MaxExchanges
    /\ isLoading' = TRUE
    /\ chatError' = "null"
    /\ sessions' = updateSession(sessions, activeSessionId,
                       MessagesOf(sessions, activeSessionId)
                           \o << UserMessage(Trim(input), hasImage),
                                 Placeholder(exchanges + 1) >>)
    /\ exSession' = activeSessionId
    /\ streamText' = <<>>
    /\ displayedText' = <<>>
    /\ isComplete' = FALSE
    /\ framePending' = TRUE
    /\ finalSources' = "undefined"
    /\ tutor' = "pending"
    /\ exchanges' = exchanges + 1
    /\ texts' = Append(texts, <<>>)
    /\ titleRequests' = IF MessagesOf(sessions, activeSessionId) = <<>>
                        THEN titleRequests \cup {activeSessionId}
                        ELSE titleRequests
    /\ storedSessions' = SaveSessions(sessions', storedSessions)
    /\ UNCHANGED <<activeSessionId, nextSessionId, liveTimeouts, voiceTurns,
                   rankVars, profileVars, liveVars, extVars>>

\* askTutor's onChunk callback with the next n characters of the reply
onChunk(n) ==
    /\ tutor = "pending"
    /\ Len(streamText) + n <= MaxLen
    /\ streamText' = streamText \o ReplyPiece(Len(streamText), n)
    /\ texts' = [texts EXCEPT ![exchanges] = streamText']
    /\ UNCHANGED <<sessions, activeSessionId, isLoading, chatError, nextSessionId,
                   exSession, displayedText, isComplete, framePending, finalSources,
                   tutor, exchanges, liveTimeouts, voiceTurns, storedSessions,
                   titleRequests, rankVars, profileVars, liveVars, extVars>>

\* askTutor resolves: finalSources = sources; finally isComplete = true
askTutorResolved(srcs) ==
    /\ tutor = "pending"
    /\ tutor' = "resolved"
    /\ finalSources' = srcs
    /\ isComplete' = TRUE
    /\ UNCHANGED <<sessions, activeSessionId, isLoading, chatError, nextSessionId,
                   exSession, streamText, displayedText, framePending, exchanges,
                   texts, liveTimeouts, voiceTurns, storedSessions, titleRequests,
                   rankVars, profileVars, liveVars, extVars>>

\* askTutor rejects: the catch block, then finally isComplete = true
askTutorRejected ==
    /\ tutor = "pending"
    /\ tutor' = "rejected"
    /\ chatError' = CaughtMessage(askTutorError)
    /\ isLoading' = FALSE
    /\ framePending' = FALSE
    /\ sessions' = updateSession(sessions, exSession,
                                RemoveStreaming(MessagesOf(sessions, exSession)))
    /\ isComplete' = TRUE
    /\ storedSessions' = SaveSessions(sessions', storedSessions)
    /\ UNCHANGED <<activeSessionId, nextSessionId, exSession, streamText,
                   displayedText, finalSources, exchanges, texts, liveTimeouts,
                   voiceTurns, titleRequests, rankVars, profileVars, liveVars,
                   extVars>>

\* one run of animateStream
animateStream ==
    /\ framePending
    /\ LET behind   == Len(displayedText) < Len(streamText)
           shown    == IF behind THEN NextContent(streamText, displayedText)
                       ELSE displayedText
           revealed == IF behind
                       THEN updateSession(sessions, exSession,
                                RevealInto(MessagesOf(sessions, exSession), shown))
                       ELSE sessions
       IN  /\ displayedText' = shown
           /\ IF LoopContinues(isComplete, shown, streamText)
              THEN /\ framePending' = TRUE
                   /\ sessions' = revealed
                   /\ UNCHANGED isLoading
              ELSE /\ framePending' = FALSE
                   /\ sessions' = updateSession(revealed, exSession,
                                      FinalizeLast(MessagesOf(revealed, exSession),
                                                   finalSources))
                   /\ isLoading' = FALSE
           /\ storedSessions' =
                  IF behind \/ ~LoopContinues(isComplete, shown, streamText)
                  THEN SaveSessions(sessions', storedSessions)
                  ELSE storedSessions
    /\ UNCHANGED <<activeSessionId, chatError, nextSessionId, exSession, streamText,
                   isComplete, finalSources, tutor, exchanges, texts, liveTimeouts,
                   voiceTurns, titleRequests, rankVars, profileVars, liveVars,
                   extVars>>

\* ChatHistorySidebar onDeleteSession
onDeleteSession(id) ==
    /\ \E i \in 1..Len(sessions) : sessions[i].id = id
    /\ LET keep(sn) == sn.id # id
       IN  sessions' = SelectSeq(sessions, keep)
    /\ activeSessionId' = IF activeSessionId = id THEN 0 ELSE activeSessionId
    /\ storedSessions' = SaveSessions(sessions', storedSessions)
    /\ UNCHANGED <<isLoading, chatError, nextSessionId, exchangeVars, liveTimeouts,
                   voiceTurns, titleRequests, rankVars, profileVars, liveVars,
                   extVars>>

\* ChatHistorySidebar onRenameSession
onRenameSession(id, name) ==
    /\ \E i \in 1..Len(sessions) : sessions[i].id = id
    /\ sessions' = renameSession(sessions, id, name)
    /\ storedSessions' = SaveSessions(sessions', storedSessions)
    /\ UNCHANGED <<activeSessionId, isLoading, chatError, nextSessionId,
                   exchangeVars, liveTimeouts, voiceTurns, titleRequests,
                   rankVars, profileVars, liveVars, extVars>>

\* generateChatTitle resolves: the session, if still there, gets the title
titleGenerated(id) ==
    /\ id \in titleRequests
    /\ titleRequests' = titleRequests \ {id}
    /\ sessions' = renameSession(sessions, id, GeneratedTitle)
    /\ storedSessions' = SaveSessions(sessions', storedSessions)
    /\ UNCHANGED <<activeSessionId, isLoading, chatError, nextSessionId,
                   exchangeVars, liveTimeouts, voiceTurns, rankVars, profileVars,
                   liveVars, extVars>>

\* the page is loaded again: Chat starts from its initial state, the
\* callbacks of the page before are gone, and the load effect reads the key;
\* the save effect then writes the list it read, or nothing for an empty one
chatReload ==
    /\ sessions' = LoadSessions(storedSessions)
    /\ activeSessionId' = 0
    /\ isLoading' = FALSE
    /\ chatError' = "null"
    /\ exSession' = 0
    /\ streamText' = <<>>
    /\ displayedText' = <<>>
    /\ isComplete' = FALSE
    /\ framePending' = FALSE
    /\ finalSources' = "undefined"
    /\ tutor' = "none"
    /\ liveTimeouts' = {}
    /\ titleRequests' = {}
    /\ storedSessions' = SaveSessions(sessions', storedSessions)
    /\ UNCHANGED <<nextSessionId, exchanges, texts, voiceTurns, rankVars,
                   profileVars, liveVars, extVars>>

\* the onTurnComplete handler Chat gives to useLiveSession; captured is the
\* activeSessionId of the render whose startSession opened the live session
turnCompleted(captured) ==
    /\ voiceTurns < MaxVoiceTurns
    /\ voiceTurns' = voiceTurns + 1
    /\ IF captured = 0
       THEN /\ sessions' = <<NewSession(nextSessionId, "Live Conversation")>> \o sessions
            /\ activeSessionId' = nextSessionId
            /\ nextSessionId' = nextSessionId + 1
            /\ liveTimeouts' = liveTimeouts \cup {nextSessionId}
       ELSE /\ sessions' = updateSession(sessions, captured,
                               MessagesOf(sessions, captured)
                                   \o <<VoiceMessage("user"), VoiceMessage("model")>>)
            /\ UNCHANGED <<activeSessionId, nextSessionId, liveTimeouts>>
    /\ storedSessions' = SaveSessions(sessions', storedSessions)
    /\ UNCHANGED <<isLoading, chatError, exchangeVars, titleRequests>>

\* a completed live turn, the live session itself left out
onTurnComplete(captured) ==
    /\ turnCompleted(captured)
    /\ UNCHANGED <<rankVars, profileVars, liveVars, extVars>>

\* the one live turn of a run of SpecChat
firstTurnComplete(captured) ==
    /\ voiceTurns = 0
    /\ onTurnComplete(captured)

\* the setTimeout(0) of onTurnComplete: the new session gets its two messages
liveTimeoutFired(newId) ==
    /\ newId \in liveTimeouts
    /\ liveTimeouts' = liveTimeouts \ {newId}
    /\ sessions' = updateSession(sessions, newId,
                       <<VoiceMessage("user"), VoiceMessage("model")>>)
    /\ storedSessions' = SaveSessions(sessions', storedSessions)
    /\ UNCHANGED <<activeSessionId, isLoading, chatError, nextSessionId, exchangeVars,
                   voiceTurns, titleRequests, rankVars, profileVars, liveVars,
                   extVars>>

----------------------------------------------------------------------------
(* components/Chat.tsx: useLiveSession *)

\* the startSession calls of one run
Gens == 1..MaxStarts

\* durations of the decoded audio buffers, in clock units
Durations == {1, 2}

\* the server messages onmessage tells apart
LiveMessages ==
    { [kind |-> "inputTranscription", duration |-> 0],
      [kind |-> "outputTranscription", duration |-> 0],
      [kind |-> "turnComplete", duration |-> 0] }
    \cup { [kind |-> "audio", duration |-> d] : d \in Durations }

MicDeniedMessage == "Microphone permission was denied"
StartFailedMessage == "Could not start live session"
LiveErrorMessage == "An error occurred with the live session"

\* isLiveSessionActive
isLiveSessionActive == liveStatus \in {"connecting", "connected"}

\* the refs, and the objects behind them, that stopSession and
\* cleanupLiveSession work on
LiveRefs ==
    [ sessionPromiseRef     |-> sessionPromiseRef,
      inputAudioContextRef  |-> inputAudioContextRef,
      outputAudioContextRef |-> outputAudioContextRef,
      mediaStreamRef        |-> mediaStreamRef,
      scriptProcessorRef    |-> scriptProcessorRef,
      nextStartTimeRef      |-> nextStartTimeRef,
      audioSourcesRef       |-> audioSourcesRef,
      liveTracks            |-> liveTracks,
      openContexts          |-> openContexts,
      connectedProcessors   |-> connectedProcessors,
      conn                  |-> conn,
      stopWaiting           |-> stopWaiting,
      scheduled             |-> scheduled,
      teardownDone          |-> teardownDone ]

\* the refs after a handler has run
SetLiveRefs(r) ==
    /\ sessionPromiseRef' = r.sessionPromiseRef
    /\ inputAudioContextRef' = r.inputAudioContextRef
    /\ outputAudioContextRef' = r.outputAudioContextRef
    /\ mediaStreamRef' = r.mediaStreamRef
    /\ scriptProcessorRef' = r.scriptProcessorRef
    /\ nextStartTimeRef' = r.nextStartTimeRef
    /\ audioSourcesRef' = r.audioSourcesRef
    /\ liveTracks' = r.liveTracks
    /\ openContexts' = r.openContexts
    /\ connectedProcessors' = r.connectedProcessors
    /\ conn' = r.conn
    /\ stopWaiting' = r.stopWaiting
    /\ scheduled' = r.scheduled
    /\ teardownDone' = r.teardownDone

\* setLiveStatus / setError: React drops the update of an unmounted component
setLiveStatus(s) == liveStatus' = IF mounted THEN s ELSE liveStatus
setError(e) == liveError' = IF mounted THEN e ELSE liveError

\* cleanupLiveSession: the context refs keep pointing at the closed contexts
cleanupLiveSession(r) ==
    [r EXCEPT !.connectedProcessors = @ \ {r.scriptProcessorRef},
              !.scriptProcessorRef = 0,
              !.liveTracks = @ \ {r.mediaStreamRef},
              !.mediaStreamRef = 0,
              !.openContexts = @ \ { <<"input", r.inputAudioContextRef>>,
                                     <<"output", r.outputAudioContextRef>> },
              !.audioSourcesRef = {},
              !.nextStartTimeRef = 0,
              !.scheduled = <<>>,
              !.teardownDone = TRUE]

\* stopSession after its await of the promise of call g has settled:
\* session.close() when it resolved, then the ref is nulled and cleanup runs
stopSessionResume(r, g, outcome) ==
    cleanupLiveSession(
        [r EXCEPT !.conn[g] = IF outcome = "resolved" /\ @ = "open"
                              THEN "closing" ELSE @,
                  !.sessionPromiseRef = 0,
                  !.stopWaiting = @ \ {g}])

\* stopSession below its setLiveStatus: with no promise in the ref cleanup
\* runs at once; a settled promise is awaited within the same task; a
\* pending one leaves the call waiting
stopSessionFrom(r) ==
    IF r.sessionPromiseRef = 0 THEN cleanupLiveSession(r)
    ELSE IF promise[r.sessionPromiseRef] = "pending"
         THEN [r EXCEPT !.stopWaiting = @ \cup {r.sessionPromiseRef}]
         ELSE stopSessionResume(r, r.sessionPromiseRef, promise[r.sessionPromiseRef])

\* the stopSession calls waiting for the promise of call g, resumed
resumeWaiting(r, g, outcome) ==
    IF g \in r.stopWaiting THEN stopSessionResume(r, g, outcome) ELSE r

\* onopen below its setLiveStatus('connected')
onopenRefs(r, g) ==
    IF r.mediaStreamRef = 0 \/ r.inputAudioContextRef = 0 THEN r
    ELSE [r EXCEPT !.scriptProcessorRef = g,
                   !.connectedProcessors = @ \cup {g}]

ScheduleStartAtCursor(cursor, currentTime) == cursor

\* nextStartTimeRef.current = Math.max(nextStartTimeRef.current, currentTime)
ScheduleStart(cursor, currentTime) == Max(cursor, currentTime)

LiveInit ==
    /\ liveStatus = "idle"
    /\ liveError = "null"
    /\ mounted = TRUE
    /\ starts = 0
    /\ startPc = [g \in Gens |-> "none"]
    /\ capturedSession = [g \in Gens |-> 0]
    /\ promise = [g \in Gens |-> "none"]
    /\ conn = [g \in Gens |-> "none"]
    /\ stopWaiting = {}
    /\ sessionPromiseRef = 0
    /\ inputAudioContextRef = 0
    /\ outputAudioContextRef = 0
    /\ mediaStreamRef = 0
    /\ scriptProcessorRef = 0
    /\ nextStartTimeRef = 0
    /\ audioSourcesRef = {}
    /\ currentInputTranscription = FALSE
    /\ currentOutputTranscription = FALSE
    /\ liveTracks = {}
    /\ openContexts = {}
    /\ connectedProcessors = {}
    /\ outClock = 0
    /\ chunks = 0
    /\ scheduled = <<>>
    /\ teardownDone = FALSE

refVars == <<sessionPromiseRef, inputAudioContextRef, outputAudioContextRef,
             mediaStreamRef, scriptProcessorRef, nextStartTimeRef, audioSourcesRef,
             liveTracks, openContexts, connectedProcessors, conn, stopWaiting,
             scheduled, teardownDone>>

\* startSession up to its await of getUserMedia; the live button calls it
\* only when no live session is active
startSession ==
    /\ mounted
    /\ ~isLiveSessionActive
    /\ starts < MaxStarts
    /\ starts' = starts + 1
    /\ liveStatus' = "connecting"
    /\ liveError' = "null"
    /\ currentInputTranscription' = FALSE
    /\ currentOutputTranscription' = FALSE
    /\ startPc' = [startPc EXCEPT ![starts + 1] = "awaitMic"]
    /\ capturedSession' = [capturedSession EXCEPT ![starts + 1] = activeSessionId]
    /\ teardownDone' = FALSE
    /\ UNCHANGED <<mounted, promise, sessionPromiseRef, inputAudioContextRef,
                   outputAudioContextRef, mediaStreamRef, scriptProcessorRef,
                   nextStartTimeRef, audioSourcesRef, liveTracks, openContexts,
                   connectedProcessors, conn, stopWaiting, scheduled, outClock,
                   chunks, rankVars, profileVars, chatVars, extVars>>

\* getUserMedia resolves: startSession goes on to its await of the promise
micGranted(g) ==
    /\ startPc[g] = "awaitMic"
    /\ startPc' = [startPc EXCEPT ![g] = "awaitConn"]
    /\ mediaStreamRef' = g
    /\ liveTracks' = liveTracks \cup {g}
    /\ inputAudioContextRef' = g
    /\ outputAudioContextRef' = g
    /\ openContexts' = openContexts \cup {<<"input", g>>, <<"output", g>>}
    /\ outClock' = 0
    /\ sessionPromiseRef' = g
    /\ promise' = [promise EXCEPT ![g] = "pending"]
    /\ conn' = [conn EXCEPT ![g] = "connecting"]
    /\ UNCHANGED <<liveStatus, liveError, mounted, starts, capturedSession,
                   stopWaiting, scriptProcessorRef, nextStartTimeRef,
                   audioSourcesRef, currentInputTranscription,
                   currentOutputTranscription, connectedProcessors, chunks,
                   scheduled, teardownDone, rankVars, profileVars, chatVars, extVars>>

\* getUserMedia rejects: the catch block of startSession
micDenied(g) ==
    /\ startPc[g] = "awaitMic"
    /\ startPc' = [startPc EXCEPT ![g] = "done"]
    /\ setError(MicDeniedMessage)
    /\ setLiveStatus("error")
    /\ SetLiveRefs(cleanupLiveSession(LiveRefs))
    /\ UNCHANGED <<mounted, starts, capturedSession, promise,
                   currentInputTranscription, currentOutputTranscription,
                   outClock, chunks, rankVars, profileVars, chatVars, extVars>>

\* the connection of call g opens: onopen runs, the promise resolves,
\* startSession returns and the waiting stopSession calls resume
ConnOpen(g) ==
    /\ conn[g] = "connecting"
    /\ promise[g] = "pending"
    /\ setLiveStatus("connected")
    /\ promise' = [promise EXCEPT ![g] = "resolved"]
    /\ startPc' = [startPc EXCEPT ![g] = "done"]
    /\ SetLiveRefs(resumeWaiting(
           onopenRefs([LiveRefs EXCEPT !.conn[g] = "open"], g), g, "resolved"))
    /\ UNCHANGED <<liveError, mounted, starts, capturedSession,
                   currentInputTranscription, currentOutputTranscription,
                   outClock, chunks, rankVars, profileVars, chatVars, extVars>>

\* the promise of call g rejects: the catch block of startSession, then the
\* waiting stopSession calls resume
ConnReject(g) ==
    /\ conn[g] = "connecting"
    /\ promise[g] = "pending"
    /\ promise' = [promise EXCEPT ![g] = "rejected"]
    /\ startPc' = [startPc EXCEPT ![g] = "done"]
    /\ setError(StartFailedMessage)
    /\ setLiveStatus("error")
    /\ SetLiveRefs(resumeWaiting(
           cleanupLiveSession([LiveRefs EXCEPT !.conn[g] = "closed"]), g, "rejected"))
    /\ UNCHANGED <<mounted, starts, capturedSession,
                   currentInputTranscription, currentOutputTranscription,
                   outClock, chunks, rankVars, profileVars, chatVars, extVars>>

\* onerror of the connection of call g
onerror(g) ==
    /\ conn[g] \in {"connecting", "open"}
    /\ setError(LiveErrorMessage)
    /\ setLiveStatus("disconnected")
    /\ SetLiveRefs(stopSessionFrom([LiveRefs EXCEPT !.conn[g] = "failed"]))
    /\ UNCHANGED <<mounted, starts, startPc, capturedSession, promise,
                   currentInputTranscription, currentOutputTranscription,
                   outClock, chunks, rankVars, profileVars, chatVars, extVars>>

\* onclose of the connection of call g
onclose(g) ==
    /\ conn[g] \in {"open", "closing", "failed"}
    /\ setLiveStatus("disconnected")
    /\ SetLiveRefs(stopSessionFrom([LiveRefs EXCEPT !.conn[g] = "closed"]))
    /\ UNCHANGED <<liveError, mounted, starts, startPc, capturedSession, promise,
                   currentInputTranscription, currentOutputTranscription,
                   outClock, chunks, rankVars, profileVars, chatVars, extVars>>

\* onmessage of the connection of call g; decodeAudioData does no I/O, so
\* the handler runs to its end before any other callback
onmessage(g, m) ==
    /\ conn[g] = "open"
    /\ currentOutputTranscription' =
           IF m.kind = "outputTranscription" THEN TRUE
           ELSE IF m.kind = "turnComplete" THEN FALSE
           ELSE currentOutputTranscription
    /\ currentInputTranscription' =
           IF m.kind = "inputTranscription" THEN TRUE
           ELSE IF m.kind = "turnComplete" THEN FALSE
           ELSE currentInputTranscription
    /\ IF /\ m.kind = "turnComplete"
          /\ currentInputTranscription
          /\ currentOutputTranscription
          /\ mounted
       THEN turnCompleted(capturedSession[g])
       ELSE UNCHANGED chatVars
    /\ IF m.kind = "audio" /\ outputAudioContextRef # 0
       THEN /\ chunks < MaxChunks
            /\ chunks' = chunks + 1
            /\ LET start == ScheduleStart(nextStartTimeRef, outClock)
               IN  /\ scheduled' = Append(scheduled,
                           [ start |-> start, duration |-> m.duration,
                             at |-> outClock, ctx |-> outputAudioContextRef ])
                   /\ audioSourcesRef' = audioSourcesRef \cup {Len(scheduled) + 1}
                   /\ nextStartTimeRef' = start + m.duration
       ELSE UNCHANGED <<chunks, scheduled, audioSourcesRef, nextStartTimeRef>>
    /\ UNCHANGED <<liveStatus, liveError, mounted, starts, startPc, capturedSession,
                   promise, conn, stopWaiting, sessionPromiseRef,
                   inputAudioContextRef, outputAudioContextRef, mediaStreamRef,
                   scriptProcessorRef, liveTracks, openContexts,
                   connectedProcessors, outClock, teardownDone,
                   rankVars, profileVars, extVars>>

\* the 'ended' listener of a started source: the buffer has played to its
\* end (the clock of a context no longer in the ref is not followed)
sourceEnded(i) ==
    /\ i \in audioSourcesRef
    /\ \/ scheduled[i].ctx # outputAudioContextRef
       \/ outClock >= scheduled[i].start + scheduled[i].duration
    /\ audioSourcesRef' = audioSourcesRef \ {i}
    /\ UNCHANGED <<liveStatus, liveError, mounted, starts, startPc, capturedSession,
                   promise, conn, stopWaiting, sessionPromiseRef,
                   inputAudioContextRef, outputAudioContextRef, mediaStreamRef,
                   scriptProcessorRef, nextStartTimeRef,
                   currentInputTranscription, currentOutputTranscription,
                   liveTracks, openContexts, connectedProcessors, outClock,
                   chunks, scheduled, teardownDone,
                   rankVars, profileVars, chatVars, extVars>>

\* the output context's clock advances while the context is open
clockTick ==
    /\ <<"output", outputAudioContextRef>> \in openContexts
    /\ outClock < MaxClock
    /\ outClock' = outClock + 1
    /\ UNCHANGED <<liveStatus, liveError, mounted, starts, startPc, capturedSession,
                   promise, currentInputTranscription, currentOutputTranscription,
                   chunks, refVars, rankVars, profileVars, chatVars, extVars>>

\* stopSession called from the live button or the End Session button, both
\* shown only while a live session is active
stopSession ==
    /\ mounted
    /\ isLiveSessionActive
    /\ setLiveStatus("disconnected")
    /\ SetLiveRefs(stopSessionFrom(LiveRefs))
    /\ UNCHANGED <<liveError, mounted, starts, startPc, capturedSession, promise,
                   currentInputTranscription, currentOutputTranscription,
                   outClock, chunks, rankVars, profileVars, chatVars, extVars>>

\* the cleanup of the unmount effect: stopSession()
unmount ==
    /\ mounted
    /\ mounted' = FALSE
    /\ SetLiveRefs(stopSessionFrom(LiveRefs))
    /\ UNCHANGED <<liveStatus, liveError, starts, startPc, capturedSession, promise,
                   currentInputTranscription, currentOutputTranscription,
                   outClock, chunks, rankVars, profileVars, chatVars, extVars>>

----------------------------------------------------------------------------
(* IEEE 754 binary64 arithmetic, as far as calculateAccuracy uses it:      *)
(* a positive double is [e, m] with m its 53 significand bits, most        *)
(* significant first, m[1] = 1 of weight 2^e                               *)

\* bits of the significand of a double
Precision == 53

\* the bit sequence plus one unit in its last place; all ones gives all zeros
RECURSIVE IncBits(_)
IncBits(b) ==
    IF b = <<>> THEN <<>>
    ELSE IF b[Len(b)] = 0 THEN [b EXCEPT ![Len(b)] = 1]
    ELSE Append(IncBits(SubSeq(b, 1, Len(b) - 1)), 0)

\* round to nearest, ties to even: b holds at least Precision + 1 bits of the
\* exact value, the first one set and of weight 2^e; sticky tells whether the
\* exact value has set bits beyond b
RoundBits(e, b, sticky) ==
    LET kept  == SubSeq(b, 1, Precision)
        guard == b[Precision + 1]
        rest  == sticky \/ \E i \in (Precision + 2)..Len(b) : b[i] = 1
        up    == guard = 1 /\ (rest \/ kept[Precision] = 1)
        inc   == IncBits(kept)
    IN  IF ~up THEN [e |-> e, m |-> kept]
        ELSE IF inc[1] = 1 THEN [e |-> e, m |-> inc]
        ELSE [e |-> e + 1, m |-> [i \in 1..Precision |-> IF i = 1 THEN 1 ELSE 0]]

\* n more quotient bits of r / t by long division, r < t
RECURSIVE QuotientBits(_, _, _)
QuotientBits(r, t, n) ==
    IF n = 0 THEN <<>>
    ELSE IF 2 * r >= t THEN <<1>> \o QuotientBits(2 * r - t, t, n - 1)
    ELSE <<0>> \o QuotientBits(2 * r, t, n - 1)

\* the remainder left after those n bits
RECURSIVE QuotientRest(_, _, _)
QuotientRest(r, t, n) ==
    IF n = 0 THEN r
    ELSE IF 2 * r >= t THEN QuotientRest(2 * r - t, t, n - 1)
    ELSE QuotientRest(2 * r, t, n - 1)

\* the number of doublings that bring c up to t, for 0 < c <= t
RECURSIVE Doublings(_, _)
Doublings(c, t) == IF c >= t THEN 0 ELSE 1 + Doublings(2 * c, t)

RECURSIVE Pow2(_)
Pow2(n) == IF n = 0 THEN 1 ELSE 2 * Pow2(n - 1)

\* c / t for integers 0 < c <= t
DivDouble(c, t) ==
    LET k == Doublings(c, t)
        n == c * Pow2(k)
    IN  RoundBits(-k, <<1>> \o QuotientBits(n - t, t, Precision),
                  QuotientRest(n - t, t, Precision) # 0)

\* the bits of b times k, least significant bit first: position i of b
\* counted from its end, carry from the lower positions
RECURSIVE TimesLsb(_, _, _, _)
TimesLsb(b, k, i, carry) ==
    IF i > Len(b)
    THEN IF carry = 0 THEN <<>>
         ELSE <<carry % 2>> \o TimesLsb(b, k, i, carry \div 2)
    ELSE LET v == b[Len(b) + 1 - i] * k + carry
         IN  <<v % 2>> \o TimesLsb(b, k, i + 1, v \div 2)

Reverse(b) == [i \in 1..Len(b) |-> b[Len(b) + 1 - i]]

\* x * k for a positive double x and an integer k in 2..127
MulDouble(x, k) ==
    LET p == Reverse(TimesLsb(x.m, k, 1, 0))
    IN  RoundBits(x.e + (Len(p) - Precision), p, FALSE)

\* the value of a short bit sequence
RECURSIVE BitsValue(_)
BitsValue(b) ==
    IF b = <<>> THEN 0 ELSE 2 * BitsValue(SubSeq(b, 1, Len(b) - 1)) + b[Len(b)]

\* Math.round for a positive double below 2^31: the integer part, plus one
\* when the bit of weight 1/2 is set
MathRound(x) ==
    IF x.e < -1 THEN 0
    ELSE IF x.e = -1 THEN 1
    ELSE BitsValue(SubSeq(x.m, 1, x.e + 1)) + x.m[x.e + 2]

----------------------------------------------------------------------------
(* utils/profileUtils.ts: calculateAccuracy *)

\* quizHistory.reduce((sum, r) => sum + r.total, 0)
RECURSIVE SumTotals(_)
SumTotals(h) == IF h = <<>> THEN 0 ELSE h[1].total + SumTotals(Tail(h))

\* Math.round((totalCorrect / totalQuestions) * 100), totalQuestions > 0
RoundedPercent(totalCorrect, totalQuestions) ==
    IF totalCorrect = 0 THEN 0
    ELSE MathRound(MulDouble(DivDouble(totalCorrect, totalQuestions), 100))

calculateAccuracy(h) ==
    IF Len(h) = 0 THEN 0
    ELSE IF SumTotals(h) > 0 THEN RoundedPercent(SumScores(h), SumTotals(h))
    ELSE 0

\* Profile: the accuracy figure, computed without the length test
ProfileAccuracy(h) ==
    IF SumTotals(h) > 0 THEN RoundedPercent(SumScores(h), SumTotals(h)) ELSE 0

\* constants.ts: QUIZ_LENGTH
QUIZ_LENGTH == 10

\* the lengths of the quizzes of the history: none, a generated quiz of
\* QUIZ_LENGTH questions, a custom quiz of MaxQuestions questions
QuestionCounts == {0, QUIZ_LENGTH, MaxQuestions}

\* results with 0 <= score <= total
AccResults ==
    { r \in [subject : {"Math"}, score : 0..MaxQuestions, total : QuestionCounts] :
          r.score <= r.total }

AccHistories ==
    UNION { [1..n -> AccResults] : n \in 0..MaxHistory }

AccInit == accHistory \in AccHistories /\ accResult = <<>>

AccIdle == accHistory = <<>> /\ accResult = <<>>

\* calculateAccuracy(quizHistory)
CallCalculateAccuracy ==
    /\ accResult = <<>>
    /\ accResult' = <<calculateAccuracy(accHistory)>>
    /\ UNCHANGED <<accHistory, rankVars, profileVars, chatVars, liveVars, accRest>>

----------------------------------------------------------------------------
(* components/Quiz.tsx: shuffleArray *)

\* the elements of the lists shuffled; lists may hold an element twice
ShuffleItems == {"a", "b"}

ShuffleInputs == UNION { [1..n -> ShuffleItems] : n \in 0..MaxList }

RandomIndexesAny(i, n) == 0..(n - 1)

\* the values of Math.floor(Math.random() * (i + 1)), Math.random() in [0, 1)
RandomIndexes(i, n) == 0..i

\* [newArray[i], newArray[j]] = [newArray[j], newArray[i]], indices from 0
Swap(a, i, j) == [a EXCEPT ![i + 1] = a[j + 1], ![j + 1] = a[i + 1]]

\* const newArray = [...array]; let i = newArray.length - 1
ShuffleInit ==
    /\ shInput \in ShuffleInputs
    /\ newArray = shInput
    /\ shI = Len(shInput) - 1
    /\ shChoices = <<>>

ShuffleIdle ==
    /\ shInput = <<>>
    /\ newArray = <<>>
    /\ shI = -1
    /\ shChoices = <<>>

\* one turn of the loop, j the random index drawn
shuffleStep(j) ==
    /\ shI > 0
    /\ j \in RandomIndexes(shI, Len(shInput))
    /\ newArray' = Swap(newArray, shI, j)
    /\ shI' = shI - 1
    /\ shChoices' = Append(shChoices, j)
    /\ UNCHANGED <<shInput, rankVars, profileVars, chatVars, liveVars, shufRest>>

\* the Error Toast of Chat is rendered
ErrorToastShown == chatError # "null" \/ liveError # "null"

\* onClear of the Error Toast: the button of ErrorDisplay
onClear ==
    /\ mounted
    /\ ErrorToastShown
    /\ chatError' = "null"
    /\ UNCHANGED <<sessions, activeSessionId, isLoading, nextSessionId,
                   exchangeVars, liveTimeouts, voiceTurns, storedSessions,
                   titleRequests, rankVars, profileVars, liveVars, extVars>>

----------------------------------------------------------------------------
(* ImageGenerator: persisting the generation history *)

\* sizes of one history item once serialised, in units of the quota
ImageSizes == {1, 2}

RECURSIVE ItemsSize(_)
ItemsSize(data) ==
    IF data = <<>> THEN 0 ELSE Head(data).size + ItemsSize(Tail(data))

\* length of JSON.stringify(data): the brackets and the items
JsonSize(data) == 1 + ItemsSize(data)

StoredSize(st) == IF st = <<>> THEN 0 ELSE JsonSize(st[1])

\* localStorage.setItem replaces the value of the key; it throws
\* QuotaExceededError when the new value does not fit beside the other keys
setItemFits(data, other) == other + JsonSize(data) <= StorageQuota

\* data.slice(0, -1), with the newest entry dropped instead
EvictNewest(data) == Tail(data)

\* data.slice(0, -1)
Evict(data) == SubSeq(data, 1, Len(data) - 1)

\* the outcome of saveHistoryWithRetry(data): the stored value and the
\* data of every setItem, `trail` being the attempts made before this call
RECURSIVE saveHistoryWithRetry(_, _, _, _)
saveHistoryWithRetry(data, stored, other, trail) ==
    IF setItemFits(data, other)
    THEN [stored |-> <<data>>, trail |-> Append(trail, data)]
    ELSE IF Len(data) > 0
         THEN saveHistoryWithRetry(Evict(data), stored, other,
                                   Append(trail, data))
         ELSE [stored |-> stored, trail |-> Append(trail, data)]

\* the effect on [history]
saveEffect(h, stored, other) ==
    IF Len(h) > 0
    THEN saveHistoryWithRetry(h, stored, other, <<>>)
    ELSE [stored |-> <<>>, trail |-> <<>>]

\* setHistory followed by the effect it triggers
setHistory(h) ==
    /\ imgHistory' = h
    /\ LET saved == saveEffect(h, imgStored, imgOther)
       IN /\ imgStored' = saved.stored
          /\ saveTrail' = saved.trail

ImgInit ==
    /\ imgMounted = FALSE
    /\ imgHistory = <<>>
    /\ imgStored = <<>>
    /\ imgOther \in 0..StorageQuota
    /\ saveTrail = <<>>
    /\ nextImageId = 1

ImgIdle ==
    /\ imgMounted = FALSE
    /\ imgHistory = <<>>
    /\ imgStored = <<>>
    /\ imgOther = 0
    /\ saveTrail = <<>>
    /\ nextImageId = 1

\* mount: the load effect reads the key, the save effect of the first
\* render (history still empty) removes it, and the render with the loaded
\* history saves it again
imgMount ==
    /\ ~imgMounted
    /\ imgMounted' = TRUE
    /\ LET loaded == IF imgStored = <<>> THEN <<>> ELSE imgStored[1]
           saved == saveEffect(loaded, <<>>, imgOther)
       IN /\ imgHistory' = loaded
          /\ imgStored' = saved.stored
          /\ saveTrail' = saved.trail
    /\ UNCHANGED <<imgOther, nextImageId, rankVars, profileVars, chatVars,
                   liveVars, imgRest>>

imgUnmount ==
    /\ imgMounted
    /\ imgMounted' = FALSE
    /\ imgHistory' = <<>>
    /\ saveTrail' = <<>>
    /\ UNCHANGED <<imgStored, imgOther, nextImageId, rankVars, profileVars,
                   chatVars, liveVars, imgRest>>

\* handleSubmit once generateImages has returned images of size sz
imageGenerated(sz) ==
    /\ imgMounted
    /\ nextImageId <= MaxImages
    /\ LET newHistoryItem == [id |-> nextImageId, size |-> sz]
           all == <<newHistoryItem>> \o imgHistory
       IN setHistory(SubSeq(all, 1, Min(Len(all), HISTORY_LIMIT)))
    /\ nextImageId' = nextImageId + 1
    /\ UNCHANGED <<imgMounted, imgOther, rankVars, profileVars, chatVars,
                   liveVars, imgRest>>

handleDeleteHistory(id) ==
    /\ imgMounted
    /\ \E i \in 1..Len(imgHistory) : imgHistory[i].id = id
    /\ setHistory(SelectSeq(imgHistory, LAMBDA item : item.id # id))
    /\ UNCHANGED <<imgMounted, imgOther, nextImageId, rankVars, profileVars,
                   chatVars, liveVars, imgRest>>

handleClearHistory ==
    /\ imgMounted
    /\ imgHistory # <<>>
    /\ setHistory(<<>>)
    /\ UNCHANGED <<imgMounted, imgOther, nextImageId, rankVars, profileVars,
                   chatVars, liveVars, imgRest>>

\* the other features of the application write their own keys: the space
\* they take changes to b, within what the quota leaves
otherKeysWritten(b) ==
    /\ b # imgOther
    /\ b + StoredSize(imgStored) <= StorageQuota
    /\ imgOther' = b
    /\ UNCHANGED <<imgMounted, imgHistory, imgStored, saveTrail, nextImageId,
                   rankVars, profileVars, chatVars, liveVars, imgRest>>

----------------------------------------------------------------------------
(* File inputs *)

InputKinds == {"chat", "profile", "reference", "editor", "creator", "analysis"}

\* the inputs whose view shows a result made from the selected file:
\* editedImage, generatedVideo, analysisResult
ResultKinds == {"editor", "creator", "analysis"}

\* the files offered to the inputs: at the limit and one byte above it
Files ==
    { [size |-> ImageLimit,     type |-> "image"],
      [size |-> ImageLimit + 1, type |-> "image"],
      [size |-> VideoLimit,     type |-> "video"],
      [size |-> VideoLimit + 1, type |-> "video"] }

\* the state of an input with no file selected (null)
NoFile == [size |-> 0, type |-> "none"]

VideoTooLargeMessage == "Video file size should not exceed 50MB."
VideoInvalidMessage == "Please select a valid video file."

\* setXFile(file); setXPreview(URL.createObjectURL(file))
selectFile(k, file) ==
    /\ fiFile' = [fiFile EXCEPT ![k] = file]
    /\ fiPreview' = [fiPreview EXCEPT ![k] = file]

\* the handler returns early (after its alert)
rejectFile == UNCHANGED <<fiFile, fiPreview, fiResult, fiError>>

\* a handler with the test `file.size > 5 * 1024 * 1024`
sizeCheckedSelect(k, file) ==
    IF file.size > ImageLimit
    THEN rejectFile
    ELSE selectFile(k, file) /\ UNCHANGED <<fiResult, fiError>>

\* a handler without a size test, which also clears the previous result
uncheckedSelect(k, file) ==
    /\ selectFile(k, file)
    /\ fiResult' = [fiResult EXCEPT ![k] = FALSE]
    /\ UNCHANGED fiError

\* Chat
handleImageUpload(file) == sizeCheckedSelect("chat", file)

\* Profile
handlePictureChange(file) == sizeCheckedSelect("profile", file)

\* ImageGenerator
handleReferenceImageChange(file) == sizeCheckedSelect("reference", file)

\* ImageEditor handleFileChange
ImageEditorFileChange(file) == uncheckedSelect("editor", file)

\* VideoCreator handleFileChange
VideoCreatorFileChange(file) == uncheckedSelect("creator", file)

\* VideoAnalysis handleFileChange
VideoAnalysisFileChange(file) ==
    IF file.size > VideoLimit
    THEN fiError' = VideoTooLargeMessage /\ UNCHANGED <<fiFile, fiPreview, fiResult>>
    ELSE IF file.type # "video"
    THEN fiError' = VideoInvalidMessage /\ UNCHANGED <<fiFile, fiPreview, fiResult>>
    ELSE /\ fiError' = "null"
         /\ selectFile("analysis", file)
         /\ fiResult' = [fiResult EXCEPT !["analysis"] = FALSE]

\* the change handler of input k
onChange(k, file) ==
    CASE k = "chat" -> handleImageUpload(file)
      [] k = "profile" -> handlePictureChange(file)
      [] k = "reference" -> handleReferenceImageChange(file)
      [] k = "editor" -> ImageEditorFileChange(file)
      [] k = "creator" -> VideoCreatorFileChange(file)
      [] k = "analysis" -> VideoAnalysisFileChange(file)

\* the user picks `file` in input k
chooseFile(k, file) ==
    /\ picks < MaxPicks
    /\ picks' = picks + 1
    /\ onChange(k, file)
    /\ UNCHANGED <<rankVars, profileVars, chatVars, liveVars, fiRest>>

\* the view's request made from the selected file has returned its result
resultShown(k) ==
    /\ k \in ResultKinds
    /\ fiFile[k] # NoFile
    /\ ~fiResult[k]
    /\ fiResult' = [fiResult EXCEPT ![k] = TRUE]
    /\ UNCHANGED <<fiFile, fiPreview, fiError, picks, rankVars, profileVars,
                   chatVars, liveVars, fiRest>>

FileInputsInit ==
    /\ fiFile = [k \in InputKinds |-> NoFile]
    /\ fiPreview = [k \in InputKinds |-> NoFile]
    /\ fiResult = [k \in InputKinds |-> FALSE]
    /\ fiError = "null"
    /\ picks = 0

----------------------------------------------------------------------------
(* Home: the Daily Spark *)

\* what generateDailySpark returns when the request or JSON.parse fails
FallbackSpark == "Learning is a treasure that will follow its owner everywhere."

\* what generateDailySpark can return: a generated snippet or the fallback
Sparks == {"fact", "tip", FallbackSpark}

\* Home mounts: its state is initial and the effect calls fetchSpark
mountHome ==
    /\ homeInstance' = homeVisits + 1
    /\ homeVisits' = homeVisits + 1
    /\ dailySpark' = "null"
    /\ loadingSpark' = TRUE
    /\ sparkPending' = sparkPending \cup {homeVisits + 1}
    /\ sparkRequests' = sparkRequests + 1

SparkInit ==
    /\ homeInstance = 1
    /\ homeVisits = 1
    /\ dailySpark = "null"
    /\ loadingSpark = TRUE
    /\ sparkPending = {1}
    /\ sparkRequests = 1
    /\ sparksShown = <<>>

SparkIdle ==
    /\ homeInstance = 0
    /\ homeVisits = 0
    /\ dailySpark = "null"
    /\ loadingSpark = TRUE
    /\ sparkPending = {}
    /\ sparkRequests = 0
    /\ sparksShown = <<>>

\* setView to a view other than home: renderView drops Home
leaveHome ==
    /\ homeInstance # 0
    /\ homeInstance' = 0
    /\ UNCHANGED <<homeVisits, dailySpark, loadingSpark, sparkPending,
                   sparkRequests, sparksShown, rankVars, profileVars,
                   chatVars, liveVars, sparkRest>>

\* setView('home') from another view: renderView mounts a new Home
returnHome ==
    /\ homeInstance = 0
    /\ homeVisits < MaxVisits
    /\ mountHome
    /\ UNCHANGED <<sparksShown, rankVars, profileVars, chatVars, liveVars,
                   sparkRest>>

\* the generateDailySpark call of instance i returns `spark`; the setters
\* act on the instance that made the call, if it is still mounted
sparkReturned(i, spark) ==
    /\ i \in sparkPending
    /\ sparkPending' = sparkPending \ {i}
    /\ IF i = homeInstance
       THEN /\ dailySpark' = spark
            /\ loadingSpark' = FALSE
            /\ sparksShown' = Append(sparksShown, spark)
       ELSE UNCHANGED <<dailySpark, loadingSpark, sparksShown>>
    /\ UNCHANGED <<homeInstance, homeVisits, sparkRequests, rankVars,
                   profileVars, chatVars, liveVars, sparkRest>>

----------------------------------------------------------------------------
(* App in two tabs: the keys learnMateUser and learnMateQuizHistory *)

Tabs == {1, 2}

\* the results the tabs record
TabResults == {r \in QuizResults : r.total = QUIZ_LENGTH}

\* localStorage.setItem, keeping the value the key already has
setItemIfAbsent(old, data) == IF old = <<>> THEN <<data>> ELSE old

\* localStorage.setItem(key, JSON.stringify(data)): the value of the key,
\* `old` before the call, is replaced
setItem(old, data) == <<data>>

\* the save effects of a render with state (u, h):
\* if (user) saveState('learnMateUser', user);
\* saveState('learnMateQuizHistory', quizHistory)
saveEffects(t, u, h) ==
    /\ storedUser' = IF u # <<>> THEN setItem(storedUser, u[1]) ELSE storedUser
    /\ storedHistory' = setItem(storedHistory, h)
    /\ lastWriter' = t

TabsInit ==
    /\ tabPc = [t \in Tabs |-> "closed"]
    /\ tabUser = [t \in Tabs |-> <<>>]
    /\ tabHistory = [t \in Tabs |-> <<>>]
    /\ tabBase = [t \in Tabs |-> <<>>]
    /\ tabUpdates = [t \in Tabs |-> <<>>]
    /\ \/ storedUser = <<>> /\ storedHistory = <<>>
       \/ \E r \in TabResults :
             /\ storedUser = <<addQuizResultUser(defaultUser, r, <<>>)>>
             /\ storedHistory = << <<r>> >>
    /\ lastWriter = 0

TabsIdle ==
    /\ tabPc = [t \in Tabs |-> "closed"]
    /\ tabUser = [t \in Tabs |-> <<>>]
    /\ tabHistory = [t \in Tabs |-> <<>>]
    /\ tabBase = [t \in Tabs |-> <<>>]
    /\ tabUpdates = [t \in Tabs |-> <<>>]
    /\ storedUser = <<>>
    /\ storedHistory = <<>>
    /\ lastWriter = 0

\* the tab opens the app: the load effect reads the keys and queues the
\* loaded state, and the save effects of the first render (user null,
\* quizHistory []) run
tabMount(t) ==
    /\ tabPc[t] = "closed"
    /\ tabPc' = [tabPc EXCEPT ![t] = "mounted"]
    /\ LET savedUser == IF storedUser # <<>> THEN storedUser[1] ELSE defaultUser
           savedHistory == IF storedHistory # <<>> THEN storedHistory[1] ELSE <<>>
       IN /\ tabUser' = [tabUser EXCEPT ![t] = <<savedUser>>]
          /\ tabHistory' = [tabHistory EXCEPT ![t] = savedHistory]
          /\ tabBase' = [tabBase EXCEPT ![t] = savedHistory]
    /\ saveEffects(t, <<>>, <<>>)
    /\ UNCHANGED <<tabUpdates, rankVars, profileVars, chatVars, liveVars, tabRest>>

\* the render with the loaded state, and its save effects
tabRendered(t) ==
    /\ tabPc[t] = "mounted"
    /\ tabPc' = [tabPc EXCEPT ![t] = "ready"]
    /\ saveEffects(t, tabUser[t], tabHistory[t])
    /\ UNCHANGED <<tabUser, tabHistory, tabBase, tabUpdates, rankVars,
                   profileVars, chatVars, liveVars, tabRest>>

\* addQuizResult(result) in tab t, and the save effects of the next render
tabAddQuizResult(t, result) ==
    /\ tabPc[t] = "ready"
    /\ Len(tabUpdates[t]) < MaxTabUpdates
    /\ LET newUser == addQuizResultUser(tabUser[t][1], result, tabHistory[t])
           newHistory == Append(tabHistory[t], result)
       IN /\ tabUser' = [tabUser EXCEPT ![t] = <<newUser>>]
          /\ tabHistory' = [tabHistory EXCEPT ![t] = newHistory]
          /\ saveEffects(t, <<newUser>>, newHistory)
    /\ tabUpdates' = [tabUpdates EXCEPT ![t] = Append(@, result)]
    /\ UNCHANGED <<tabPc, tabBase, rankVars, profileVars, chatVars, liveVars,
                   tabRest>>

----------------------------------------------------------------------------
(* components/Todo.tsx: tasks and reminders *)

\* the future times the reminder modal hands to onSetReminder
ReminderTimes == {1, 2}

\* what the user answers to the permission prompt; "default" when the
\* prompt is dismissed
PromptAnswers == {"granted", "denied", "default"}

\* tasks.map(task => task.id === id ? { ...task, reminder: timestamp } : task)
WithReminder(ts, id, timestamp) ==
    [i \in 1..Len(ts) |->
        IF ts[i].id = id THEN [ts[i] EXCEPT !.reminder = timestamp] ELSE ts[i]]

TodoInit ==
    /\ tasks = <<>>
    /\ permission \in {"default", "granted", "denied"}
    /\ prompts = {}
    /\ nextTaskId = 1

TodoIdle ==
    /\ tasks = <<>>
    /\ permission = "default"
    /\ prompts = {}
    /\ nextTaskId = 1

\* handleAddTask; blank: newTaskText.trim() === ''
handleAddTask(blank) ==
    /\ nextTaskId <= MaxTasks
    /\ IF blank
       THEN UNCHANGED <<tasks, nextTaskId>>
       ELSE /\ tasks' = <<[id |-> nextTaskId, completed |-> FALSE,
                           reminder |-> 0]>> \o tasks
            /\ nextTaskId' = nextTaskId + 1
    /\ UNCHANGED <<permission, prompts, rankVars, profileVars, chatVars,
                   liveVars, todoRest>>

handleToggleTask(id) ==
    /\ \E i \in 1..Len(tasks) : tasks[i].id = id
    /\ tasks' = [i \in 1..Len(tasks) |->
                    IF tasks[i].id = id
                    THEN [tasks[i] EXCEPT !.completed = ~tasks[i].completed]
                    ELSE tasks[i]]
    /\ UNCHANGED <<permission, prompts, nextTaskId, rankVars, profileVars,
                   chatVars, liveVars, todoRest>>

handleDeleteTask(id) ==
    /\ \E i \in 1..Len(tasks) : tasks[i].id = id
    /\ tasks' = SelectSeq(tasks, LAMBDA task : task.id # id)
    /\ UNCHANGED <<permission, prompts, nextTaskId, rankVars, profileVars,
                   chatVars, liveVars, todoRest>>

\* ReminderModal.handleSet with a future time -> handleSetReminder
handleSetReminder(id, timestamp) ==
    /\ \E i \in 1..Len(tasks) : tasks[i].id = id
    /\ IF permission = "default"
       THEN /\ Cardinality(prompts) < MaxPrompts
            /\ prompts' = prompts \cup
                  {[tasks |-> tasks, id |-> id, timestamp |-> timestamp]}
            /\ UNCHANGED tasks
       ELSE IF permission = "denied"
       THEN UNCHANGED <<tasks, prompts>>
       ELSE /\ tasks' = WithReminder(tasks, id, timestamp)
            /\ UNCHANGED prompts
    /\ UNCHANGED <<permission, nextTaskId, rankVars, profileVars, chatVars,
                   liveVars, todoRest>>

\* the user answers the prompt of request p: the promise of
\* requestPermission resolves and its then-callback runs, with the `tasks`
\* of the render whose handleSetReminder made the request
promptAnswered(p, answer) ==
    /\ p \in prompts
    /\ prompts' = prompts \ {p}
    /\ permission' = answer
    /\ IF answer = "granted"
       THEN tasks' = WithReminder(p.tasks, p.id, p.timestamp)
       ELSE UNCHANGED tasks
    /\ UNCHANGED <<nextTaskId, rankVars, profileVars, chatVars, liveVars,
                   todoRest>>

----------------------------------------------------------------------------
(* components/Quiz.tsx: a quiz in progress, resume and finish *)

QuizSubjects == {"Math", "Custom"}

\* the options of every question; the correct one is "a"
QuizOptions == {"a", "b"}

\* questions: [] of useState
NoQuestions == [id |-> 0, correct |-> <<>>]

\* a set of questions, as generateQuiz returns or a custom quiz holds: id
\* tells one set from another, correct[i] is questions[i-1].correctAnswer
NewQuestions(id) == [id |-> id, correct |-> [i \in 1..NumQuestions |-> "a"]]

\* the useState initial values of Quiz
InitialQuiz ==
    [ subject |-> "null", questions |-> NoQuestions,
      currentQuestionIndex |-> 0, userAnswers |-> <<>>, isLoading |-> FALSE,
      showResults |-> FALSE, selectedOption |-> "null", savedQuiz |-> <<>> ]

\* stateToSave of the save effect
StateToSave(q) ==
    [ subject |-> q.subject, questions |-> q.questions,
      currentQuestionIndex |-> q.currentQuestionIndex,
      userAnswers |-> q.userAnswers ]

\* the save effect after a render with state q, the key holding `stored`
SaveProgress(q, stored) ==
    IF q.subject # "null" /\ Len(q.questions.correct) > 0 /\ ~q.showResults
    THEN <<StateToSave(q)>>
    ELSE stored

\* the render branches: results, question, loading, else the selection
QuestionShown(q) ==
    /\ ~q.showResults
    /\ Len(q.questions.correct) > 0
    /\ q.currentQuestionIndex < Len(q.questions.correct)

SelectionShown(q) ==
    /\ ~q.showResults
    /\ ~QuestionShown(q)
    /\ ~q.isLoading

\* newAnswers[currentQuestionIndex] = answer
SetAnswer(answers, index, answer) ==
    IF index < Len(answers)
    THEN [answers EXCEPT ![index + 1] = answer]
    ELSE Append(answers, answer)

RECURSIVE CountCorrect(_, _)
\* finalAnswers.reduce(... answer === questions[index].correctAnswer ...)
CountCorrect(answers, correct) ==
    IF answers = <<>> THEN 0
    ELSE (IF Head(answers) = Head(correct) THEN 1 ELSE 0)
         + CountCorrect(Tail(answers), Tail(correct))

QuizInit ==
    /\ quizInstance = 0
    /\ quizMounts = 0
    /\ quiz = InitialQuiz
    /\ activeQuizState = <<>>
    /\ quizTimers = {}
    /\ quizRequests = {}
    /\ quizCalls = <<>>
    /\ nextQuizId = 1

\* setView('quiz'): a new Quiz mounts and its load effect reads the key
quizMount ==
    /\ quizInstance = 0
    /\ quizMounts < MaxQuizMounts
    /\ quizInstance' = quizMounts + 1
    /\ quizMounts' = quizMounts + 1
    /\ quiz' = [InitialQuiz EXCEPT !.savedQuiz = activeQuizState]
    /\ UNCHANGED <<activeQuizState, quizTimers, quizRequests, quizCalls,
                   nextQuizId, rankVars, profileVars, chatVars, liveVars,
                   quizRest>>

\* setView to another view: Quiz unmounts; nothing clears its timers
quizUnmount ==
    /\ quizInstance # 0
    /\ quizInstance' = 0
    /\ quiz' = InitialQuiz
    /\ UNCHANGED <<quizMounts, activeQuizState, quizTimers, quizRequests,
                   quizCalls, nextQuizId, rankVars, profileVars, chatVars,
                   liveVars, quizRest>>

\* startQuiz(selectedSubject) up to the await of generateQuiz
startQuiz(selectedSubject) ==
    /\ quizInstance # 0
    /\ SelectionShown(quiz)
    /\ nextQuizId + Cardinality(quizRequests) <= MaxQuizStarts
    /\ LET q == [quiz EXCEPT !.subject = selectedSubject, !.isLoading = TRUE]
       IN /\ quiz' = q
          /\ activeQuizState' = SaveProgress(q, <<>>)
    /\ quizRequests' = quizRequests \cup
          {[inst |-> quizInstance, subject |-> selectedSubject]}
    /\ UNCHANGED <<quizInstance, quizMounts, quizTimers, quizCalls,
                   nextQuizId, rankVars, profileVars, chatVars, liveVars,
                   quizRest>>

\* generateQuiz resolves: the rest of the try block and the finally
quizGenerated(r) ==
    /\ r \in quizRequests
    /\ quizRequests' = quizRequests \ {r}
    /\ nextQuizId' = nextQuizId + 1
    /\ IF r.inst = quizInstance
       THEN LET q == [quiz EXCEPT !.questions = NewQuestions(nextQuizId),
                                  !.currentQuestionIndex = 0,
                                  !.userAnswers = <<>>,
                                  !.showResults = FALSE,
                                  !.isLoading = FALSE]
            IN /\ quiz' = q
               /\ activeQuizState' = SaveProgress(q, activeQuizState)
       ELSE UNCHANGED <<quiz, activeQuizState>>
    /\ UNCHANGED <<quizInstance, quizMounts, quizTimers, quizCalls, rankVars,
                   profileVars, chatVars, liveVars, quizRest>>

\* generateQuiz rejects: catch (setError) and finally
quizGenerateFailed(r) ==
    /\ r \in quizRequests
    /\ quizRequests' = quizRequests \ {r}
    /\ quiz' = IF r.inst = quizInstance
               THEN [quiz EXCEPT !.isLoading = FALSE] ELSE quiz
    /\ UNCHANGED <<quizInstance, quizMounts, activeQuizState, quizTimers,
                   quizCalls, nextQuizId, rankVars, profileVars, chatVars,
                   liveVars, quizRest>>

startCustomQuiz ==
    /\ quizInstance # 0
    /\ SelectionShown(quiz)
    /\ nextQuizId + Cardinality(quizRequests) <= MaxQuizStarts
    /\ nextQuizId' = nextQuizId + 1
    /\ LET q == [quiz EXCEPT !.subject = "Custom",
                             !.questions = NewQuestions(nextQuizId),
                             !.currentQuestionIndex = 0,
                             !.userAnswers = <<>>,
                             !.showResults = FALSE]
       IN /\ quiz' = q
          /\ activeQuizState' = SaveProgress(q, <<>>)
    /\ UNCHANGED <<quizInstance, quizMounts, quizTimers, quizRequests,
                   quizCalls, rankVars, profileVars, chatVars, liveVars,
                   quizRest>>

\* Quiz.handleAnswer: a click on an option of the question shown
quizHandleAnswer(answer) ==
    /\ quizInstance # 0
    /\ QuestionShown(quiz)
    /\ IF quiz.selectedOption # "null"
       THEN UNCHANGED <<quiz, activeQuizState, quizTimers>>
       ELSE LET newAnswers == SetAnswer(quiz.userAnswers,
                                        quiz.currentQuestionIndex, answer)
                q == [quiz EXCEPT !.selectedOption = answer,
                                  !.userAnswers = newAnswers]
            IN /\ Cardinality(quizTimers) < MaxQuizTimers
               /\ quiz' = q
               /\ activeQuizState' = SaveProgress(q, activeQuizState)
               /\ quizTimers' = quizTimers \cup
                     {[ inst |-> quizInstance, subject |-> quiz.subject,
                        questions |-> quiz.questions,
                        currentQuestionIndex |-> quiz.currentQuestionIndex,
                        newAnswers |-> newAnswers ]}
    /\ UNCHANGED <<quizInstance, quizMounts, quizRequests, quizCalls,
                   nextQuizId, rankVars, profileVars, chatVars, liveVars,
                   quizRest>>

\* the 1.5 s timeout of handleAnswer fires; on the last question it runs
\* Quiz.finishQuiz(newAnswers).  The setters act only on a mounted instance;
\* clearActiveQuiz and addQuizResult act in any case.
quizTimerFired(t) ==
    /\ t \in quizTimers
    /\ quizTimers' = quizTimers \ {t}
    /\ IF t.currentQuestionIndex < Len(t.questions.correct) - 1
       THEN /\ IF t.inst = quizInstance
               THEN LET q == [quiz EXCEPT
                                !.selectedOption = "null",
                                !.currentQuestionIndex =
                                    t.currentQuestionIndex + 1]
                    IN /\ quiz' = q
                       /\ activeQuizState' = SaveProgress(q, activeQuizState)
               ELSE UNCHANGED <<quiz, activeQuizState>>
            /\ UNCHANGED quizCalls
       ELSE IF t.subject = "null"
       THEN /\ quiz' = IF t.inst = quizInstance
                       THEN [quiz EXCEPT !.selectedOption = "null"] ELSE quiz
            /\ UNCHANGED <<activeQuizState, quizCalls>>
       ELSE /\ activeQuizState' = <<>>
            /\ quizCalls' = Append(quizCalls,
                  [ quiz |-> t.questions.id,
                    answers |-> t.newAnswers,
                    subject |-> t.subject,
                    score |-> CountCorrect(t.newAnswers, t.questions.correct),
                    total |-> Len(t.questions.correct) ])
            /\ quiz' = IF t.inst = quizInstance
                       THEN [quiz EXCEPT !.selectedOption = "null",
                                         !.showResults = TRUE]
                       ELSE quiz
    /\ UNCHANGED <<quizInstance, quizMounts, quizRequests, nextQuizId,
                   rankVars, profileVars, chatVars, liveVars, quizRest>>

\* the button of the results view
resetQuiz ==
    /\ quizInstance # 0
    /\ quiz.showResults
    /\ quiz' = [quiz EXCEPT !.subject = "null", !.questions = NoQuestions,
                            !.showResults = FALSE,
                            !.currentQuestionIndex = 0,
                            !.userAnswers = <<>>]
    /\ activeQuizState' = <<>>
    /\ UNCHANGED <<quizInstance, quizMounts, quizTimers, quizRequests,
                   quizCalls, nextQuizId, rankVars, profileVars, chatVars,
                   liveVars, quizRest>>

\* the Continue button of the resume banner
resumeQuiz ==
    /\ quizInstance # 0
    /\ SelectionShown(quiz)
    /\ quiz.savedQuiz # <<>>
    /\ LET s == quiz.savedQuiz[1]
           q == [quiz EXCEPT !.subject = s.subject,
                             !.questions = s.questions,
                             !.currentQuestionIndex = s.currentQuestionIndex,
                             !.userAnswers = s.userAnswers,
                             !.savedQuiz = <<>>]
       IN /\ quiz' = q
          /\ activeQuizState' = SaveProgress(q, activeQuizState)
    /\ UNCHANGED <<quizInstance, quizMounts, quizTimers, quizRequests,
                   quizCalls, nextQuizId, rankVars, profileVars, chatVars,
                   liveVars, quizRest>>

\* the Discard button of the resume banner
discardSavedQuiz ==
    /\ quizInstance # 0
    /\ SelectionShown(quiz)
    /\ quiz.savedQuiz # <<>>
    /\ quiz' = [quiz EXCEPT !.savedQuiz = <<>>]
    /\ activeQuizState' = <<>>
    /\ UNCHANGED <<quizInstance, quizMounts, quizTimers, quizRequests,
                   quizCalls, nextQuizId, rankVars, profileVars, chatVars,
                   liveVars, quizRest>>

----------------------------------------------------------------------------
(* hooks/useSpeechRecognition.ts *)

\* the error codes getSpeechErrorMessage tells apart, and one it does not
SpeechErrorCodes == {"no-speech", "not-allowed", "aborted"}

getSpeechErrorMessage(errorCode) ==
    CASE errorCode = "no-speech"   -> "No speech was detected"
      [] errorCode = "not-allowed" -> "Microphone access was denied"
      [] OTHER                     -> "An unknown speech recognition error occurred"

SpeechInit ==
    /\ isListening = FALSE
    /\ listeningUpdate = <<>>
    /\ refSyncPending = FALSE
    /\ isListeningRef = FALSE
    /\ recognition = "idle"
    /\ speechError = "null"
    /\ intent = "none"
    /\ restarts = 0

\* recognition.start(): InvalidStateError when the recognizer was started
\* and no end event has fired since; the recognizer is left as it is
RecognitionStart(r) == IF r = "idle" THEN "started" ELSE r

\* recognition.stop(): a started recognizer ends; the end event comes later
RecognitionStop(r) == IF r = "started" THEN "ending" ELSE r

\* startListening, of the render with the present isListening
startListening ==
    /\ ~isListening
    /\ listeningUpdate' = <<TRUE>>
    /\ speechError' = "null"
    /\ recognition' = RecognitionStart(recognition)
    /\ intent' = "listening"
    /\ UNCHANGED <<isListening, refSyncPending, isListeningRef, restarts,
                   rankVars, profileVars, chatVars, liveVars, speechRest>>

\* stopListening, of the render with the present isListening
stopListening ==
    /\ isListening
    /\ listeningUpdate' = <<FALSE>>
    /\ recognition' = RecognitionStop(recognition)
    /\ intent' = "stopped"
    /\ UNCHANGED <<isListening, refSyncPending, isListeningRef, speechError,
                   restarts, rankVars, profileVars, chatVars, liveVars,
                   speechRest>>

\* React renders the hook with the queued value of isListening: an effect
\* still pending from the render before runs first, and the effect with the
\* dependency [isListening] is queued when the value has changed
speechRender ==
    /\ listeningUpdate # <<>>
    /\ isListening' = listeningUpdate[1]
    /\ listeningUpdate' = <<>>
    /\ isListeningRef' = IF refSyncPending THEN isListening ELSE isListeningRef
    /\ refSyncPending' = (listeningUpdate[1] # isListening)
    /\ UNCHANGED <<recognition, speechError, intent, restarts,
                   rankVars, profileVars, chatVars, liveVars, speechRest>>

\* useEffect(() => { isListeningRef.current = isListening }, [isListening])
syncListeningRef ==
    /\ refSyncPending
    /\ refSyncPending' = FALSE
    /\ isListeningRef' = isListening
    /\ UNCHANGED <<isListening, listeningUpdate, recognition, speechError,
                   intent, restarts, rankVars, profileVars, chatVars, liveVars,
                   speechRest>>

\* recognition.onerror; the recognizer ends after an error
recognitionOnerror(errorCode) ==
    /\ recognition = "started"
    /\ speechError' = getSpeechErrorMessage(errorCode)
    /\ listeningUpdate' = <<FALSE>>
    /\ recognition' = "ending"
    /\ intent' = "error"
    /\ UNCHANGED <<isListening, refSyncPending, isListeningRef, restarts,
                   rankVars, profileVars, chatVars, liveVars, speechRest>>

\* the recognizer ends by itself (silence, the service closing the stream)
recognitionEnds ==
    /\ recognition = "started"
    /\ recognition' = "ending"
    /\ UNCHANGED <<isListening, listeningUpdate, refSyncPending, isListeningRef,
                   speechError, intent, restarts, rankVars, profileVars,
                   chatVars, liveVars, speechRest>>

\* recognition.onend
recognitionOnend ==
    /\ recognition = "ending"
    /\ IF isListeningRef
       THEN /\ restarts < MaxRestarts
            /\ recognition' = RecognitionStart("idle")
            /\ restarts' = restarts + 1
            /\ UNCHANGED listeningUpdate
       ELSE /\ recognition' = "idle"
            /\ listeningUpdate' = <<FALSE>>
            /\ UNCHANGED restarts
    /\ UNCHANGED <<isListening, refSyncPending, isListeningRef, speechError,
                   intent, rankVars, profileVars, chatVars, liveVars,
                   speechRest>>

----------------------------------------------------------------------------
(* components/Chat.tsx: animateStream, the reveal of one frame *)

\* the buffers a frame may find: any reply streamed so far and any part of
\* it displayed
RevealInit ==
    /\ \E n \in 0..MaxBacklog : revealStream = ReplyPiece(0, n)
    /\ \E k \in 0..Len(revealStream) : revealDisplayed = Slice0(revealStream, k)
    /\ revealBefore = revealDisplayed
    /\ revealWrote = FALSE
    /\ revealFrames = 0

RevealIdle ==
    /\ revealStream = <<>>
    /\ revealDisplayed = <<>>
    /\ revealBefore = <<>>
    /\ revealWrote = FALSE
    /\ revealFrames = 0

\* the block `if (displayedText.length < streamText.length) { ... }` of one
\* frame: displayedText = nextContent and updateSession with that content
revealFrame ==
    /\ revealFrames < MaxFrames
    /\ revealFrames' = revealFrames + 1
    /\ revealBefore' = revealDisplayed
    /\ IF Len(revealDisplayed) < Len(revealStream)
       THEN /\ revealDisplayed' = NextContent(revealStream, revealDisplayed)
            /\ revealWrote' = TRUE
       ELSE /\ revealDisplayed' = revealDisplayed
            /\ revealWrote' = FALSE
    /\ UNCHANGED <<revealStream, rankVars, profileVars, chatVars, liveVars,
                   revealRest>>

\* the parts outside the specification at hand, at rest
ExtIdle == AccIdle /\ ShuffleIdle /\ ImgIdle /\ FileInputsInit /\ SparkIdle /\ TabsIdle /\ TodoIdle /\ QuizInit /\ SpeechInit /\ RevealIdle

----------------------------------------------------------------------------
(* Specifications *)

RankNext == CallGetRank

ProfileNext ==
    \/ \E v \in Views : setView(v)
    \/ \E r \in QuizResults : handleAnswer(r)
    \/ finishQuiz
    \/ \E nm \in Names, p \in BOOLEAN : handleSave(nm, p)
    \/ \E u \in pendingSaves : saveResolved(u)
    \/ \E u \in pendingSaves : saveRejected(u)

\* sessions and one text exchange, with one live turn falling into it; the
\* title callback writes the name only and is left to SessionsNext
ChatNext ==
    \/ handleNewChat
    \/ \E t \in InputTexts, img \in BOOLEAN : handleSendMessage(t, img)
    \/ \E n \in ChunkLengths : onChunk(n)
    \/ \E srcs \in {"undefined", "sources"} : askTutorResolved(srcs)
    \/ askTutorRejected
    \/ animateStream
    \/ \E id \in 1..(MaxSessions + MaxVoiceTurns) : onDeleteSession(id)
    \/ \E c \in 0..(nextSessionId - 1) : firstTurnComplete(c)
    \/ \E id \in liveTimeouts : liveTimeoutFired(id)
    \/ onClear

\* the session list and its copy under 'learnMateChatSessions'
SessionsNext ==
    \/ handleNewChat
    \/ \E t \in InputTexts, img \in BOOLEAN : handleSendMessage(t, img)
    \/ \E n \in ChunkLengths : onChunk(n)
    \/ \E srcs \in {"undefined", "sources"} : askTutorResolved(srcs)
    \/ askTutorRejected
    \/ animateStream
    \/ \E id \in 1..(MaxSessions + MaxVoiceTurns) : onDeleteSession(id)
    \/ \E id \in 1..MaxSessions, name \in NewNames : onRenameSession(id, name)
    \/ \E id \in titleRequests : titleGenerated(id)
    \/ chatReload

\* onmessage in a run in which one turn completes
onmessageOneTurn(g, m) ==
    /\ ( /\ m.kind = "turnComplete"
         /\ currentInputTranscription
         /\ currentOutputTranscription
         /\ mounted ) => voiceTurns = 0
    /\ onmessage(g, m)

\* the startSession call of a run that holds one live session
firstStartSession ==
    /\ starts = 0
    /\ startSession

LiveNext ==
    \/ startSession
    \/ \E g \in Gens : micGranted(g)
    \/ \E g \in Gens : micDenied(g)
    \/ \E g \in Gens : ConnOpen(g)
    \/ \E g \in Gens : ConnReject(g)
    \/ \E g \in Gens : onerror(g)
    \/ \E g \in Gens : onclose(g)
    \/ \E g \in Gens, m \in LiveMessages : onmessageOneTurn(g, m)
    \/ \E i \in 1..MaxChunks : sourceEnded(i)
    \/ clockTick
    \/ stopSession
    \/ unmount
    \/ \E id \in liveTimeouts : mounted /\ liveTimeoutFired(id)
    \/ onClear

\* one live session: LiveNext with a single startSession call
AudioNext ==
    \/ firstStartSession
    \/ \E g \in Gens : micGranted(g)
    \/ \E g \in Gens : micDenied(g)
    \/ \E g \in Gens : ConnOpen(g)
    \/ \E g \in Gens : ConnReject(g)
    \/ \E g \in Gens : onerror(g)
    \/ \E g \in Gens : onclose(g)
    \/ \E g \in Gens, m \in LiveMessages : onmessage(g, m)
    \/ \E i \in 1..MaxChunks : sourceEnded(i)
    \/ clockTick
    \/ stopSession
    \/ unmount
    \/ \E id \in liveTimeouts : mounted /\ liveTimeoutFired(id)
    \/ onClear

InitRankSpec    == RankInit /\ ProfileInit /\ ChatInit /\ LiveInit /\ ExtIdle
InitProfileSpec == RankIdle /\ ProfileInit /\ ChatInit /\ LiveInit /\ ExtIdle
InitChatSpec    == RankIdle /\ ProfileInit /\ ChatInit /\ LiveInit /\ ExtIdle
InitSessionsSpec == RankIdle /\ ProfileInit /\ ChatInit /\ LiveInit /\ ExtIdle
InitLiveSpec    == RankIdle /\ ProfileInit /\ ChatInit /\ LiveInit /\ ExtIdle
InitAudioSpec   == RankIdle /\ ProfileInit /\ ChatInit /\ LiveInit /\ ExtIdle

AccuracyNext == CallCalculateAccuracy

InitAccuracySpec == RankIdle /\ ProfileInit /\ ChatInit /\ LiveInit /\ AccInit /\ ShuffleIdle /\ ImgIdle /\ FileInputsInit /\ SparkIdle /\ TabsIdle /\ TodoIdle /\ QuizInit /\ SpeechInit /\ RevealIdle

ShuffleNext == \E j \in 0..(MaxList - 1) : shuffleStep(j)

InitShuffleSpec == RankIdle /\ ProfileInit /\ ChatInit /\ LiveInit /\ AccIdle /\ ShuffleInit /\ ImgIdle /\ FileInputsInit /\ SparkIdle /\ TabsIdle /\ TodoIdle /\ QuizInit /\ SpeechInit /\ RevealIdle

ImageHistoryNext ==
    \/ imgMount
    \/ imgUnmount
    \/ \E sz \in ImageSizes : imageGenerated(sz)
    \/ \E id \in 1..MaxImages : handleDeleteHistory(id)
    \/ handleClearHistory
    \/ \E b \in 0..StorageQuota : otherKeysWritten(b)

InitImageHistorySpec == RankIdle /\ ProfileInit /\ ChatInit /\ LiveInit /\ AccIdle /\ ShuffleIdle /\ ImgInit /\ FileInputsInit /\ SparkIdle /\ TabsIdle /\ TodoIdle /\ QuizInit /\ SpeechInit /\ RevealIdle

SpecImageHistory == InitImageHistorySpec /\ [][ImageHistoryNext]_vars

FileInputsNext ==
    \/ \E k \in InputKinds, file \in Files : chooseFile(k, file)
    \/ \E k \in ResultKinds : resultShown(k)

InitFileInputsSpec == RankIdle /\ ProfileInit /\ ChatInit /\ LiveInit /\ AccIdle /\ ShuffleIdle /\ ImgIdle /\ FileInputsInit /\ SparkIdle /\ TabsIdle /\ TodoIdle /\ QuizInit /\ SpeechInit /\ RevealIdle

SpecFileInputs == InitFileInputsSpec /\ [][FileInputsNext]_vars

SparkNext ==
    \/ leaveHome
    \/ returnHome
    \/ \E i \in 1..MaxVisits, spark \in Sparks : sparkReturned(i, spark)

InitSparkSpec == RankIdle /\ ProfileInit /\ ChatInit /\ LiveInit /\ AccIdle /\ ShuffleIdle /\ ImgIdle /\ FileInputsInit /\ SparkInit /\ TabsIdle /\ TodoIdle /\ QuizInit /\ SpeechInit /\ RevealIdle

SpecSpark == InitSparkSpec /\ [][SparkNext]_vars

TabsNext ==
    \/ \E t \in Tabs : tabMount(t)
    \/ \E t \in Tabs : tabRendered(t)
    \/ \E t \in Tabs, r \in TabResults : tabAddQuizResult(t, r)

InitTabsSpec == RankIdle /\ ProfileInit /\ ChatInit /\ LiveInit /\ AccIdle /\ ShuffleIdle /\ ImgIdle /\ FileInputsInit /\ SparkIdle /\ TabsInit /\ TodoIdle /\ QuizInit /\ SpeechInit /\ RevealIdle

SpecTabs == InitTabsSpec /\ [][TabsNext]_vars

BadgesNext == \E r \in BadgeResults : addQuizResult(r)

InitBadgesSpec == RankIdle /\ ProfileInit /\ ChatInit /\ LiveInit /\ ExtIdle

SpecBadges == InitBadgesSpec /\ [][BadgesNext]_vars

TodoNext ==
    \/ \E blank \in BOOLEAN : handleAddTask(blank)
    \/ \E id \in 1..MaxTasks : handleToggleTask(id)
    \/ \E id \in 1..MaxTasks : handleDeleteTask(id)
    \/ \E id \in 1..MaxTasks, timestamp \in ReminderTimes :
          handleSetReminder(id, timestamp)
    \/ \E p \in prompts, answer \in PromptAnswers : promptAnswered(p, answer)

InitTodoSpec == RankIdle /\ ProfileInit /\ ChatInit /\ LiveInit /\ AccIdle /\ ShuffleIdle /\ ImgIdle /\ FileInputsInit /\ SparkIdle /\ TabsIdle /\ TodoInit /\ QuizInit /\ SpeechInit /\ RevealIdle

SpecTodo == InitTodoSpec /\ [][TodoNext]_vars

QuizNext ==
    \/ quizMount
    \/ quizUnmount
    \/ \E s \in QuizSubjects : startQuiz(s)
    \/ \E r \in [inst : 1..MaxQuizMounts, subject : QuizSubjects] : quizGenerated(r)
    \/ \E r \in [inst : 1..MaxQuizMounts, subject : QuizSubjects] : quizGenerateFailed(r)
    \/ startCustomQuiz
    \/ \E answer \in QuizOptions : quizHandleAnswer(answer)
    \/ \E t \in quizTimers : quizTimerFired(t)
    \/ resetQuiz
    \/ resumeQuiz
    \/ discardSavedQuiz

InitQuizSpec == RankIdle /\ ProfileInit /\ ChatInit /\ LiveInit /\ AccIdle /\ ShuffleIdle /\ ImgIdle /\ FileInputsInit /\ SparkIdle /\ TabsIdle /\ TodoIdle /\ QuizInit /\ SpeechInit /\ RevealIdle

SpecQuiz == InitQuizSpec /\ [][QuizNext]_vars

SpeechNext ==
    \/ startListening
    \/ stopListening
    \/ speechRender
    \/ syncListeningRef
    \/ \E errorCode \in SpeechErrorCodes : recognitionOnerror(errorCode)
    \/ recognitionEnds
    \/ recognitionOnend

InitSpeechSpec == RankIdle /\ ProfileInit /\ ChatInit /\ LiveInit /\ AccIdle /\ ShuffleIdle /\ ImgIdle /\ FileInputsInit /\ SparkIdle /\ TabsIdle /\ TodoIdle /\ QuizInit /\ SpeechInit /\ RevealIdle
SpecSpeech == InitSpeechSpec /\ [][SpeechNext]_vars

RevealNext == revealFrame

InitRevealSpec == RankIdle /\ ProfileInit /\ ChatInit /\ LiveInit /\ AccIdle /\ ShuffleIdle /\ ImgIdle /\ FileInputsInit /\ SparkIdle /\ TabsIdle /\ TodoIdle /\ QuizInit /\ SpeechInit /\ RevealInit
SpecReveal == InitRevealSpec /\ [][RevealNext]_vars

SpecShuffle == InitShuffleSpec /\ [][ShuffleNext]_vars

SpecAccuracy == InitAccuracySpec /\ [][AccuracyNext]_vars

SpecRank    == InitRankSpec /\ [][RankNext]_vars
SpecProfile == InitProfileSpec /\ [][ProfileNext]_vars
SpecChat    == InitChatSpec /\ [][ChatNext]_vars
SpecSessions == InitSessionsSpec /\ [][SessionsNext]_vars
SpecLive    == InitLiveSpec /\ [][LiveNext]_vars
SpecAudio   == InitAudioSpec /\ [][AudioNext]_vars

----------------------------------------------------------------------------
(* Claims *)

\* The step function of total points as the specification words it.
RankOfPoints(p) ==
    IF p < 500 THEN "Bronze"
    ELSE IF p < 1500 THEN "Silver"
    ELSE IF p < 3000 THEN "Gold"
    ELSE IF p < 5000 THEN "Emerald"
    ELSE "Diamond"

\* C1: for every non-negative integer p, getRank(p) is Bronze below 500,
\* Silver in [500,1500), Gold in [1500,3000), Emerald in [3000,5000) and
\* Diamond from 5000 on, and no smaller argument has a higher rank.
C1_RankStepMonotone ==
    rkRank # "none" =>
        /\ rkRank = RankOfPoints(rkPoints)
        /\ \A q \in 0..rkPoints :
              RankIndex(getRank(q)) <= RankIndex(rkRank)

\* getRank has been called on a threshold and returned the higher rank
C1_Witness == rkPoints = 500 /\ rkRank = "Silver"

\* a step of SpecProfile that is a call of addQuizResult
IsAddQuizResultStep ==
    /\ finishTimers # <<>>
    /\ finishTimers' = Tail(finishTimers)
    /\ quizHistory' = Append(quizHistory, Head(finishTimers).result)

\* C2: getNewBadges returns every badge of currentBadges, and no call of
\* addQuizResult, whatever results arrive in whatever order, removes a badge
\* the user held before it.
C2_BadgesMonotone ==
    /\ [](\A r \in QuizResults :
            user.badges \subseteq getNewBadges(user.badges, r, quizHistory))
    /\ [][IsAddQuizResultStep => user.badges \subseteq user'.badges]_vars

\* a badge earned by an earlier result is held after a later result that
\* does not earn it itself
C2_Witness ==
    /\ Len(quizHistory) >= 2
    /\ quizHistory[1].subject = "Math"
    /\ quizHistory[Len(quizHistory)].subject # "Math"
    /\ "Math Star" \in user.badges

\* C3: user.totalPoints never decreases, in any interleaving of quiz
\* completions and profile saves.
C3_PointsNeverDecrease ==
    [][user'.totalPoints >= user.totalPoints]_vars

\* C4: in every reachable state the stored rank is the rank of the stored
\* points.
C4_RankMatchesPoints == user.rank = getRank(user.totalPoints)

\* a quiz result has moved the user out of the default rank, and a profile
\* save has been applied since
C4_Witness ==
    /\ quizHistory # <<>>
    /\ user.rank # "Bronze"
    /\ user.profilePicture = "pic"

\* ---- streaming chat

IsPrefix(a, b) == Len(a) <= Len(b) /\ SubSeq(b, 1, Len(a)) = a

\* the messages of all sessions in ss that exchange k placed as placeholder
Tagged(ss, k) ==
    { m \in UNION { { ss[i].messages[j] : j \in 1..Len(ss[i].messages) } :
                    i \in 1..Len(ss) } : m.ex = k }

IsUserMessage(m) == m.role = "user"

\* C5: every content the placeholder of an exchange ever has is a prefix of
\* the text of that exchange, each content extends the one before, and a
\* placeholder marked non-streaming holds the final text exactly.
C5_StreamingReveal ==
    /\ [](\A k \in 1..exchanges : \A m \in Tagged(sessions, k) :
            /\ IsPrefix(m.content, texts[k])
            /\ ~m.isStreaming =>
                  /\ m.content = texts[k]
                  /\ k = exchanges => tutor = "resolved")
    /\ [][\A k \in 1..exchanges :
            \A m \in Tagged(sessions, k) : \A n \in Tagged(sessions', k) :
                IsPrefix(m.content, n.content)]_vars

\* a reply of full length, revealed over several frames, has been finalised
C5_Witness ==
    /\ exchanges >= 1
    /\ \E m \in Tagged(sessions, exchanges) :
          ~m.isStreaming /\ Len(m.content) = MaxLen

\* C6: once askTutor has resolved and the loop has stopped, the placeholder
\* is non-streaming and carries the sources of the call and isLoading is
\* false; the placeholder is not finalised before the call has resolved and
\* the displayed text has caught up.
C6_LoopFinalises ==
    /\ (tutor = "resolved" /\ ~framePending) =>
          /\ ~isLoading
          /\ \A m \in Tagged(sessions, exchanges) :
                ~m.isStreaming /\ m.sources = finalSources
    /\ exchanges >= 1 =>
          \A m \in Tagged(sessions, exchanges) :
             ~m.isStreaming => (tutor = "resolved" /\ displayedText = streamText)

\* C7: the step in which askTutor fails sets an error, clears isLoading,
\* stops the loop, leaves no streaming message in the session and keeps its
\* user messages; afterwards the loop does not run and the placeholder of
\* the failed exchange is in no session.
C7_FailureDiscards ==
    /\ [][(tutor = "pending" /\ tutor' = "rejected") =>
            /\ chatError' # "null"
            /\ ~isLoading'
            /\ ~framePending'
            /\ Tagged(sessions', exchanges) = {}
            /\ Len(sessions') = Len(sessions)
            /\ \A i \in 1..Len(sessions) :
                  /\ sessions'[i].id = exSession =>
                        \A j \in 1..Len(sessions'[i].messages) :
                            ~sessions'[i].messages[j].isStreaming
                  /\ SelectSeq(sessions'[i].messages, IsUserMessage)
                        = SelectSeq(sessions[i].messages, IsUserMessage)]_vars
    /\ [](tutor = "rejected" =>
            ~framePending /\ Tagged(sessions, exchanges) = {})

\* the call failed after part of the reply had been displayed, and the
\* session still holds the user's message
C7_Witness ==
    /\ tutor = "rejected"
    /\ Len(displayedText) > 0
    /\ \E i \in 1..Len(sessions) :
          /\ sessions[i].id = exSession
          /\ \E j \in 1..Len(sessions[i].messages) :
                sessions[i].messages[j].role = "user"

\* ---- live voice session

EndOf(k) == scheduled[k].start + scheduled[k].duration

RECURSIVE DurationsBefore(_)
DurationsBefore(k) ==
    IF k <= 1 THEN 0 ELSE DurationsBefore(k - 1) + scheduled[k - 1].duration

\* C8 as stated: chunk k of a live session is started at the output clock's
\* reading at session start plus d1 + ... + d(k-1), whatever the arrival
\* times; c is that reading, any value the clock can have
C8_StartAtSessionClockPlusDurations ==
    \E c \in 0..MaxClock :
        \A k \in 1..Len(scheduled) : scheduled[k].start = c + DurationsBefore(k)

\* C8 (amended): among the chunks handled since the last cleanup, chunk k is
\* started at the later of the end of chunk k-1 (0 for the first chunk) and
\* the output clock's reading when chunk k is handled; hence no two scheduled
\* buffers overlap, consecutive buffers are gap-free when chunk k is handled
\* no later than the end of chunk k-1, and the cursor is the end of the last
\* chunk
C8_StartAtCursorOrClock ==
    /\ \A k \in 1..Len(scheduled) :
          /\ scheduled[k].start =
                 Max(IF k = 1 THEN 0 ELSE EndOf(k - 1), scheduled[k].at)
          /\ k > 1 => scheduled[k].start >= EndOf(k - 1)
          /\ (k > 1 /\ scheduled[k].at <= EndOf(k - 1))
                 => scheduled[k].start = EndOf(k - 1)
    /\ nextStartTimeRef = IF scheduled = <<>> THEN 0 ELSE EndOf(Len(scheduled))

\* a second chunk handled after the first one has played to its end, and so
\* started at its handling time
C8_Witness ==
    /\ Len(scheduled) >= 2
    /\ scheduled[2].at > EndOf(1)
    /\ scheduled[2].start = scheduled[2].at

\* C9: the status follows idle -> connecting -> connected -> (error |
\* disconnected): connected is entered only from connecting, error and
\* disconnected only from connecting or connected, connecting only by a
\* startSession call, and idle is never entered again
C9_StatusMachine ==
    [][ /\ (liveStatus' = "connected" /\ liveStatus # "connected")
             => liveStatus = "connecting"
        /\ (liveStatus' \in {"error", "disconnected"} /\ liveStatus' # liveStatus)
             => liveStatus \in {"connecting", "connected"}
        /\ (liveStatus' = "connecting" /\ liveStatus # "connecting")
             => starts' = starts + 1
        /\ liveStatus' = "idle" => liveStatus = "idle" ]_vars

NoResourceHeld ==
    /\ liveTracks = {}
    /\ connectedProcessors = {}
    /\ openContexts = {}
    /\ audioSourcesRef = {}
    /\ nextStartTimeRef = 0

\* C10: once a teardown (stopSession, a transport error or close, unmount)
\* has run its cleanup and no startSession has been called since, no
\* live-session resource is held: tracks stopped, processor disconnected, both
\* contexts closed, source set empty, cursor reset
C10_TeardownComplete == teardownDone => NoResourceHeld

\* the turn-complete message of the server
TurnCompleteMessage == [kind |-> "turnComplete", duration |-> 0]

\* C11: every turn-complete message handled while Chat is mounted hands the
\* accumulated transcripts to onTurnComplete once, as one completed exchange,
\* and leaves both transcript buffers empty
C11_TurnFlushed ==
    [][ (mounted /\ \E g \in Gens : onmessage(g, TurnCompleteMessage))
            => /\ voiceTurns' = voiceTurns + 1
               /\ ~currentInputTranscription'
               /\ ~currentOutputTranscription' ]_vars

\* C12: no automatic retry or reconnection: while the live status is error or
\* disconnected, a microphone request is made only by a startSession call and
\* no live connection is opened; and askTutor is called again after a failure
\* only by a new handleSendMessage
C12_NoAutomaticRetry ==
    [][ /\ liveStatus \in {"error", "disconnected"}
             => /\ \A g \in Gens :
                      (startPc[g] # "awaitMic" /\ startPc'[g] = "awaitMic")
                          => starts' = starts + 1
                /\ \A g \in Gens : conn[g] = "none" => conn'[g] = "none"
        /\ (tutor = "rejected" /\ tutor' = "pending")
             => exchanges' = exchanges + 1 ]_vars

\* ---- accuracy

\* the integer nearest to 100 * c / t, for t > 0 (a tie goes up)
NearestPercent(c, t) == (200 * c + t) \div (2 * t)

\* C13: calculateAccuracy, and the accuracy figure of the profile, give 0
\* when the summed total of the history is 0 and otherwise the integer
\* nearest to 100 * correct / questions, an integer in 0..100
C13_AccuracyRounded ==
    accResult # <<>> =>
        LET c == SumScores(accHistory)
            t == SumTotals(accHistory)
        IN  /\ accResult[1] = ProfileAccuracy(accHistory)
            /\ accResult[1] \in 0..100
            /\ t = 0 => accResult[1] = 0
            /\ t > 0 => accResult[1] = NearestPercent(c, t)

\* ---- shuffleArray

\* the choice sequences the loop can make on a list of n elements
ChoiceSeqs(n) ==
    IF n <= 1 THEN {<<>>}
    ELSE { cs \in [1..(n - 1) -> 0..(n - 1)] :
               \A k \in 1..(n - 1) : cs[k] \in RandomIndexes(n - k, n) }

\* the positions 1..n shuffled by the choices cs, the first k of them made
RECURSIVE ShuffledPositions(_, _, _)
ShuffledPositions(n, cs, k) ==
    IF k = 0 THEN [p \in 1..n |-> p]
    ELSE Swap(ShuffledPositions(n, cs, k - 1), n - k, cs[k])

RECURSIVE Factorial(_)
Factorial(n) == IF n <= 1 THEN 1 ELSE n * Factorial(n - 1)

Occurrences(a, x) == Cardinality({p \in 1..Len(a) : a[p] = x})

\* C14: shuffleArray returns a permutation of its input (same length, same
\* multiset), and it is uniform: the loop has n! choice sequences for n
\* elements and no two of them give the same permutation, so each
\* permutation comes from exactly one choice sequence
C14_ShuffleUniformPermutation ==
    LET n    == Len(shInput)
        made == ShuffledPositions(n, shChoices, Len(shChoices))
    IN  /\ Len(newArray) = n
        /\ \A x \in ShuffleItems : Occurrences(newArray, x) = Occurrences(shInput, x)
        /\ newArray = [p \in 1..n |-> shInput[made[p]]]
        /\ shI <= 0 =>
              /\ shChoices \in ChoiceSeqs(n)
              /\ Cardinality(ChoiceSeqs(n)) = Factorial(n)
              /\ \A cs \in ChoiceSeqs(n) :
                     ShuffledPositions(n, cs, Len(cs)) = made => cs = shChoices

\* the loop has ended on a list of at least three elements, one of them moved
C14_Witness ==
    /\ shI = 0
    /\ Len(shInput) >= 3
    /\ newArray # shInput

\* a step in which the history was set (or loaded) and its save ran
SaveRan == imgMounted' /\ imgOther' = imgOther

StartsWith(h, p) == Len(p) <= Len(h) /\ SubSeq(h, 1, Len(p)) = p

\* C15: a save first writes the whole history; every further write follows a
\* write that the quota refused, and carries the previous data without its
\* last (oldest) entry; there are at most one write per entry plus one, so
\* the retry ends; it ends with a write that succeeded, or with the refused
\* write of the empty list; and the value left under the key, if any, is a
\* prefix of the newest-first history in memory.
C15_EvictOldestAndRetry ==
    [][SaveRan =>
        LET t == saveTrail'
            h == imgHistory'
        IN /\ (h # <<>>) => (t # <<>> /\ t[1] = h)
           /\ \A k \in 1..(Len(t) - 1) :
                /\ imgOther + JsonSize(t[k]) > StorageQuota
                /\ Len(t[k]) > 0
                /\ t[k + 1] = SubSeq(t[k], 1, Len(t[k]) - 1)
           /\ Len(t) <= Len(h) + 1
           /\ (t # <<>>) =>
                \/ imgOther + JsonSize(t[Len(t)]) <= StorageQuota
                   /\ imgStored' = <<t[Len(t)]>>
                \/ t[Len(t)] = <<>> /\ imgStored' = imgStored
           /\ imgStored' = <<>> \/ StartsWith(h, imgStored'[1])
    ]_vars

\* a save that evicted at least one entry and stored a non-empty proper
\* prefix of the history
C15_Witness ==
    /\ imgMounted
    /\ Len(saveTrail) >= 2
    /\ imgStored # <<>>
    /\ imgStored[1] # <<>>
    /\ imgStored[1] = saveTrail[Len(saveTrail)]
    /\ Len(imgStored[1]) < Len(imgHistory)

\* C16: the error banner of the chat view can be dismissed: whenever it is
\* shown, pressing its clear button makes it go away, whether the message
\* came from the chat or from the live voice session
C16_BannerDismissible ==
    (mounted /\ ErrorToastShown) => ENABLED (onClear /\ ~ErrorToastShown')

\* C17: after a failed askTutor call the text of the chat's error banner is
\* the userFacingMessage of the GeminiError thrown, not its technical message
C17_BannerShowsUserFacingMessage ==
    (chatError # "null") => (chatError = askTutorError.userFacingMessage)

\* the size limit of input k
SizeLimit(k) == IF k = "analysis" THEN VideoLimit ELSE ImageLimit

\* C18: choosing a file larger than the limit of the input leaves the
\* selected file, the preview and the previous result of every input as
\* they were
C18_OversizedFileRejected ==
    [][\A k \in InputKinds, file \in Files :
          (file.size > SizeLimit(k) /\ chooseFile(k, file))
              => UNCHANGED <<fiFile, fiPreview, fiResult>>]_vars

\* C19: within one app load generateDailySpark is called at most once,
\* however often the home view is left and shown again, and every snippet
\* displayed is the same one
C19_SparkGeneratedOnce ==
    /\ sparkRequests <= 1
    /\ \A i, j \in 1..Len(sparksShown) : sparksShown[i] = sparksShown[j]

\* both tabs show the state they loaded, they loaded the same quiz history,
\* and each has recorded a result since
BothTabsUpdated ==
    /\ \A t \in Tabs : tabPc[t] = "ready" /\ tabUpdates[t] # <<>>
    /\ tabBase[1] = tabBase[2]

\* C20: the stored user and quiz history are exactly the in-memory values of
\* the tab that wrote last; and once two tabs that loaded the same history
\* have each recorded a result, the stored history is the loaded one followed
\* by the results of the last writer only, the other tab's results being
\* absent from it
C20_LastWriteWins ==
    /\ (lastWriter # 0 /\ tabPc[lastWriter] = "ready") =>
          /\ storedUser = tabUser[lastWriter]
          /\ storedHistory = <<tabHistory[lastWriter]>>
    /\ BothTabsUpdated =>
          /\ storedHistory = <<tabBase[lastWriter] \o tabUpdates[lastWriter]>>
          /\ Len(storedHistory[1]) <
                Len(tabBase[1]) + Len(tabUpdates[1]) + Len(tabUpdates[2])

\* both tabs have recorded a result, different ones, and tab 1 wrote last
C20_Witness ==
    /\ BothTabsUpdated
    /\ lastWriter = 1
    /\ tabUpdates[1] # tabUpdates[2]
    /\ tabBase[1] # <<>>

\* C21: when addQuizResult records a result for a user without 'Quiz Champ',
\* the user holds the badge afterwards exactly if the results recorded so
\* far, the new one counted once, are at least 10
C21_QuizChampAtTenQuizzes ==
    [][(quizHistory' # quizHistory /\ "Quiz Champ" \notin user.badges) =>
          (("Quiz Champ" \in user'.badges)
              <=> (Len(quizHistory') >= QuizChampCount))]_vars

\* C22: when addQuizResult records a result for a user without 'Knowledge
\* Seeker', the user holds the badge afterwards exactly if the scores of the
\* results recorded so far, the new one counted once, sum to at least 100
C22_KnowledgeSeekerAtHundredCorrect ==
    [][(quizHistory' # quizHistory /\ "Knowledge Seeker" \notin user.badges) =>
          (("Knowledge Seeker" \in user'.badges)
              <=> (SumScores(quizHistory') >= KnowledgeSeekerCorrect))]_vars

\* C23: a reminder is stored only with the permission granted, and it
\* changes the reminder of the target task only: the list after the step is
\* the list before it with that one field set, whether the permission was
\* granted already or in answer to the prompt; with the permission denied,
\* or the prompt dismissed, the list is unchanged
C23_ReminderTouchesTargetOnly ==
    [][/\ \A id \in 1..MaxTasks, timestamp \in ReminderTimes :
            handleSetReminder(id, timestamp) =>
                tasks' = IF permission = "granted"
                         THEN WithReminder(tasks, id, timestamp)
                         ELSE tasks
       /\ \A p \in prompts, answer \in PromptAnswers :
            promptAnswered(p, answer) =>
                tasks' = IF answer = "granted"
                         THEN WithReminder(tasks, p.id, p.timestamp)
                         ELSE tasks]_vars

\* C24: no quiz has two results handed to addQuizResult; each result has
\* total = number of questions and score = number of recorded answers equal
\* to the correct one, within 0..total; and during the feedback delay the
\* recorded answers stay those of the click that started it
C24_OneResultPerQuiz ==
    /\ \A i, j \in 1..Len(quizCalls) :
          (quizCalls[i].quiz = quizCalls[j].quiz) => (i = j)
    /\ \A i \in 1..Len(quizCalls) :
          LET c == quizCalls[i]
          IN /\ c.total = NumQuestions
             /\ Len(c.answers) = c.total
             /\ c.score = Cardinality({k \in 1..c.total : c.answers[k] = "a"})
             /\ c.score \in 0..c.total
    /\ (quizInstance # 0 /\ quiz.selectedOption # "null") =>
          \E t \in quizTimers :
             t.inst = quizInstance /\ t.newAnswers = quiz.userAnswers

\* C25: the quiz the resume banner offers is the one the key activeQuizState
\* holds; a quiz in progress is the persisted one, with its subject,
\* questions, index and answers; and while the results of a finished quiz
\* are shown the key holds no quiz
C25_ResumeMatchesStorage ==
    /\ (quizInstance # 0 /\ SelectionShown(quiz) /\ quiz.savedQuiz # <<>>) =>
          activeQuizState = quiz.savedQuiz
    /\ (quizInstance # 0 /\ QuestionShown(quiz)) =>
          activeQuizState = <<StateToSave(quiz)>>
    /\ (quizInstance # 0 /\ quiz.showResults) => activeQuizState = <<>>

\* C26: the turns completed during one live session (one startSession call)
\* are all in one chat session: that session holds, or is about to receive
\* from the pending timeout, a user and a model voice message per completed
\* turn, in pairs and in order, and no other session holds a voice message
C26_LiveTurnsInOneSession ==
    (starts <= 1 /\ voiceTurns > 0) =>
        \E i \in 1..Len(sessions) :
            LET msgs  == sessions[i].messages
                voice == {k \in 1..Len(msgs) : msgs[k].modality = "voice"}
            IN  /\ Cardinality(voice)
                     + (IF sessions[i].id \in liveTimeouts THEN 2 ELSE 0)
                       = 2 * voiceTurns
                /\ \A k \in voice :
                       msgs[k].role = IF k % 2 = 1 THEN "user" ELSE "model"
                /\ \A j \in 1..Len(sessions) :
                       (j # i) =>
                          /\ sessions[j].id \notin liveTimeouts
                          /\ \A k \in 1..Len(sessions[j].messages) :
                                 sessions[j].messages[k].modality # "voice"

\* C27: handleSendMessage is disabled while isLoading is true, without an
\* active session, and with blank input and no image; every chat session
\* holds at most one message with isStreaming = true, and none while no
\* exchange is in flight (isLoading = FALSE: not started, completed or failed)
C27_OneExchangeInFlight ==
    /\ \A t \in InputTexts, img \in BOOLEAN :
          (isLoading \/ activeSessionId = 0 \/ (Trim(t) = <<>> /\ ~img)) =>
              ~ENABLED handleSendMessage(t, img)
    /\ \A i \in 1..Len(sessions) :
          LET msgs      == sessions[i].messages
              streaming == {k \in 1..Len(msgs) : msgs[k].isStreaming}
          IN  /\ Cardinality(streaming) <= 1
              /\ ~isLoading => streaming = {}

\* C28: the value under 'learnMateChatSessions' is the in-memory session
\* list (an absent key standing for the empty list), so loading the page
\* again gives the list as it was: no deleted session comes back
C28_StoredSessionsTrackList == LoadSessions(storedSessions) = sessions

\* C29: the onend handler restarts the recognizer only while the user is
\* listening: never after stopListening or after a recognition error,
\* wherever the render and the ref-sync effect stand; and when the user is
\* listening, with no render or effect outstanding, it does restart it
C29_RestartOnlyWhileListening ==
    [][ /\ (recognition = "ending" /\ recognition' = "started") =>
               intent = "listening"
        /\ ( /\ recognition = "ending"
             /\ recognition' # "ending"
             /\ intent = "listening"
             /\ listeningUpdate = <<>>
             /\ ~refSyncPending ) => recognition' = "started" ]_vars

\* C30: a frame that finds a backlog b > 0 reveals c further characters of
\* the buffer, where c is the integer nearest to b / 1.5 and at least 1,
\* c is within 1..b, and no smaller backlog gives a larger reveal; a frame
\* that finds no backlog leaves the displayed text alone and writes nothing
C30_RevealGrowsWithBacklog ==
    revealFrames > 0 =>
        LET b == Len(revealStream) - Len(revealBefore)
            c == Len(revealDisplayed) - Len(revealBefore)
        IN  IF b > 0
            THEN /\ revealDisplayed = Slice0(revealStream, Len(revealBefore) + c)
                 /\ c >= 1
                 /\ c <= b
                 /\ 3 * c - 2 * b \in -1..1
                 /\ \A smaller \in 1..b : RevealChunk(smaller) <= c
                 /\ revealWrote
            ELSE /\ revealDisplayed = revealBefore
                 /\ ~revealWrote

\* a frame has revealed several characters of a backlog it did not clear
C30_Witness ==
    /\ revealFrames > 0
    /\ Len(revealDisplayed) - Len(revealBefore) >= 3
    /\ Len(revealDisplayed) < Len(revealStream)

====
